---- MODULE Spec2Model ----
(***************************************************************************)
(* A model of the imperial library: the cache nodes of linkmap.py, the    *)
(* key resolution of core/key.py, core/base.py and core/dynamic.py, the    *)
(* byte streams of util.py and the codec of core/serializable.py and      *)
(* core/number.py.                                                         *)
(*                                                                         *)
(* Values are small naturals.  A model value stands for one python object, *)
(* so identity ("is") and equality of model values coincide.  None is the  *)
(* python None.                                                            *)
(***************************************************************************)
EXTENDS Integers, Sequences, FiniteSets, TLC

\* ------------------------------------------------------------------ bounds
NumNodes == 3
MaxVal == 1
MaxEdges == 2

\* python's None: a value below every value the model computes.
None == 0 - 4 * (MaxVal + 1)
Nodes == 1..NumNodes
Values == 0..MaxVal
Modulus == MaxVal + 1

VARIABLES
    node,      \* the cache nodes: LinkNode objects of a graph
    edge,      \* who reads whom, and how the reader registered itself
    failing,   \* the nodes whose refresh callable raises
    explicit,  \* history: the nodes whose cached value was stored by a set
    last,      \* the last operation: its kind, target and outcome
    kd,        \* the Key objects of two structs, with their LinkNode
    ktype,     \* the struct type of the child struct
    hidden,    \* the `hidden` attribute of the benefactor's key
    io         \* the byte streams and the codec's state

nodeVars == <<node, edge, failing, explicit>>
keyVars == <<kd, ktype, hidden>>
vars == <<node, edge, failing, explicit, last, kd, ktype, hidden, io>>

\* ------------------------------------------------------------ linkmap.py
\* A set in some iteration order (WeakSet iteration order is unspecified;
\* the walks below end in the same state for every order).
RECURSIVE Order(_)
Order(S) ==
    IF S = {} THEN <<>>
    ELSE LET x == CHOOSE y \in S : TRUE IN <<x>> \o Order(S \ {x})

Range(s) == {s[i] : i \in 1..Len(s)}

\* A walk that forgets the references: only links_in is followed.
DependentsLinksOnly(nd, x) == Order(nd[x].links_in)

\* The nodes x.invalidate(memo) is called on from node x: links_in first,
\* then references_in.
Dependents(nd, x) == Order(nd[x].links_in) \o Order(nd[x].references_in)

\* A walk that treats a rigid node like any other.
RECURSIVE InvalidateWalkRigid(_, _, _, _)
InvalidateWalkRigid(nd, memo, marks, stack) ==
    IF stack = <<>> THEN [nd |-> nd, memo |-> memo, marks |-> marks]
    ELSE IF Head(stack) \in memo
    THEN InvalidateWalkRigid(nd, memo, marks, Tail(stack))
    ELSE InvalidateWalkRigid([nd EXCEPT ![Head(stack)].valid = FALSE],
                             memo \cup {Head(stack)},
                             Append(marks, Head(stack)),
                             Dependents(nd, Head(stack)) \o Tail(stack))

\* BaseLinkNode.invalidate with the call stack flattened: `stack` holds the
\* pending x.invalidate(memo) calls, `memo` is the shared per-call set and
\* `marks` lists, in order, the nodes whose valid flag was assigned False.
RECURSIVE InvalidateWalk(_, _, _, _)
InvalidateWalk(nd, memo, marks, stack) ==
    IF stack = <<>> THEN [nd |-> nd, memo |-> memo, marks |-> marks]
    ELSE LET x == Head(stack)
             rest == Tail(stack)
         IN  IF nd[x].rigid \/ x \in memo
             THEN InvalidateWalk(nd, memo, marks, rest)
             ELSE InvalidateWalk([nd EXCEPT ![x].valid = FALSE],
                                 memo \cup {x},
                                 Append(marks, x),
                                 Dependents(nd, x) \o rest)

\* x.invalidate() with no memo given.
Invalidate(nd, x) == InvalidateWalk(nd, {}, <<>>, <<x>>)

\* A setter that stores the value and tells no dependent.
SetValueNoFanout(nd, x, v) ==
    IF nd[x].value # v
    THEN [nd |-> [nd EXCEPT ![x].value = v, ![x].valid = TRUE],
          memo |-> {x}, marks |-> <<>>]
    ELSE [nd |-> nd, memo |-> {}, marks |-> <<>>]

\* A setter that stores and fans out whatever it is given.
SetValueAlways(nd, x, v) ==
    InvalidateWalk([nd EXCEPT ![x].value = v, ![x].valid = TRUE],
                   {x}, <<>>, Dependents(nd, x))

\* A setter whose fan-out starts with an empty memo.
SetValueNoMemo(nd, x, v) ==
    IF nd[x].value # v
    THEN InvalidateWalk([nd EXCEPT ![x].value = v, ![x].valid = TRUE],
                        {}, <<>>, Dependents(nd, x))
    ELSE [nd |-> nd, memo |-> {}, marks |-> <<>>]

\* The LinkNode.value setter.
SetValue(nd, x, v) ==
    IF nd[x].value # v
    THEN InvalidateWalk([nd EXCEPT ![x].value = v, ![x].valid = TRUE],
                        {x}, <<>>, Dependents(nd, x))
    ELSE [nd |-> nd, memo |-> {}, marks |-> <<>>]

\* --------------------------------------------- a graph of cache nodes
\* The nodes whose value node x's refresh callable reads.
ReadsOf(x) == {n \in Nodes : edge[<<n, x>>] # "none"}

Num(v) == IF v = None THEN 0 ELSE v

\* The refresh callables of the graph: node x's callable reads the value of
\* every node in ReadsOf(x) and returns a result that changes whenever one
\* of them changes.
RefreshResult(x, sum) == (x + sum) % Modulus

\* A getter that never trusts its cache.
NeverCached(nd, x) == FALSE

\* The test of the LinkNode.value getter: is the cached value returned?
IsCached(nd, x) == nd[x].valid

\* A getter that marks the node valid although refresh raised.
RefreshRaisedValid(st, x) ==
    [st |-> [st EXCEPT !.nd[x].valid = TRUE], ok |-> FALSE, val |-> None]

\* The getter when refresh raises: the exception leaves the getter before
\* either assignment, so the node is as it was.
RefreshRaised(st, x) == [st |-> st, ok |-> FALSE, val |-> None]

\* The LinkNode.value getter on node x.  st.nd are the nodes, st.calls the
\* nodes whose refresh callable has been invoked; `active` holds the nodes
\* whose refresh is running.  Reading an invalid node whose refresh is
\* running calls refresh again, without end: python raises RecursionError.
RECURSIVE GetValue(_, _, _), ReadAll(_, _, _, _)
GetValue(st, x, active) ==
    IF IsCached(st.nd, x)
    THEN [st |-> st, ok |-> TRUE, val |-> st.nd[x].value]
    ELSE IF x \in active
    THEN [st |-> st, ok |-> FALSE, val |-> None]
    ELSE LET r == ReadAll([st EXCEPT !.calls = @ \cup {x}],
                          Order(ReadsOf(x)), active \cup {x}, 0)
         IN  IF r.ok /\ x \notin failing
             THEN LET v == RefreshResult(x, r.val)
                  IN  [st |-> [r.st EXCEPT !.nd[x].value = v,
                                           !.nd[x].valid = TRUE],
                       ok |-> TRUE, val |-> v]
             ELSE RefreshRaised(r.st, x)

\* The reads a refresh callable makes, in order, summing what it reads; the
\* first read that raises ends the refresh.
ReadAll(st, todo, active, sum) ==
    IF todo = <<>> THEN [st |-> st, ok |-> TRUE, val |-> sum]
    ELSE LET r == GetValue(st, Head(todo), active)
         IN  IF r.ok
             THEN ReadAll(r.st, Tail(todo), active, sum + Num(r.val))
             ELSE [st |-> r.st, ok |-> FALSE, val |-> None]

\* The graphs: at most MaxEdges edges <<n, m>>, "m reads n", between
\* distinct nodes, and the ring in which every node reads the one before.
RingEdges == {<<n, (n % NumNodes) + 1>> : n \in Nodes}

EdgeSets == {E \in SUBSET {p \in Nodes \X Nodes : p[1] # p[2]} :
                Cardinality(E) <= MaxEdges} \cup {RingEdges}

\* How reader m registered itself on n: the last node registers by name
\* (add_reference), the others directly (add_link).
EdgeOf(E, n, m) ==
    IF <<n, m>> \notin E THEN "none"
    ELSE IF m = NumNodes THEN "ref" ELSE "link"

NoOp == [op |-> "none", n |-> 0, ok |-> TRUE, ret |-> None,
         marks |-> <<>>, calls |-> {}]

\* LinkNode(refresh=..., rigid=...) for every node, each reader registered
\* with add_link or add_reference on the nodes it reads.
NodeInit ==
    /\ kd = <<>> /\ ktype = "Adder" /\ hidden = FALSE /\ io = <<>>
    /\ \E E \in EdgeSets :
          edge = [p \in Nodes \X Nodes |-> EdgeOf(E, p[1], p[2])]
    /\ \E R \in {{}, {1}} :
          node = [n \in Nodes |->
                    [value |-> None, valid |-> FALSE, rigid |-> n \in R,
                     links_in |-> {m \in Nodes : edge[<<n, m>>] = "link"},
                     references_in |-> {m \in Nodes : edge[<<n, m>>] = "ref"}]]
    /\ failing \in {{}, {NumNodes}}
    /\ explicit = {}
    /\ last = NoOp

\* x = node.value
NodeGet(x) ==
    LET r == GetValue([nd |-> node, calls |-> {}], x, {})
    IN  /\ node' = r.st.nd
        /\ explicit' = explicit \ {y \in r.st.calls : r.st.nd[y].valid}
        /\ last' = [op |-> "get", n |-> x, ok |-> r.ok, ret |-> r.val,
                    marks |-> <<>>, calls |-> r.st.calls]
        /\ UNCHANGED <<edge, failing>>

\* node.value = v
NodeSet(x, v) ==
    LET r == SetValue(node, x, v)
    IN  /\ node' = r.nd
        /\ explicit' = IF node[x].value # v THEN explicit \cup {x} ELSE explicit
        /\ last' = [op |-> "set", n |-> x, ok |-> TRUE, ret |-> v,
                    marks |-> r.marks, calls |-> {}]
        /\ UNCHANGED <<edge, failing>>

\* node.invalidate()
NodeInvalidate(x) ==
    LET r == Invalidate(node, x)
    IN  /\ node' = r.nd
        /\ last' = [op |-> "invalidate", n |-> x, ok |-> TRUE, ret |-> None,
                    marks |-> r.marks, calls |-> {}]
        /\ UNCHANGED <<edge, failing, explicit>>

NodeNext ==
    \/ \E x \in Nodes : NodeGet(x) /\ UNCHANGED <<keyVars, io>>
    \/ \E x \in Nodes, v \in Values \cup {None} : NodeSet(x, v) /\ UNCHANGED <<keyVars, io>>
    \/ \E x \in Nodes : NodeInvalidate(x) /\ UNCHANGED <<keyVars, io>>

SpecNode == NodeInit /\ [][NodeNext]_vars

\* ------------------------------------------------- structs and their keys
\* Two Dynamic structs: the child "C" and its benefactor "P".  C has the
\* keys a, b and data; P has the key data.  (No free-standing node exists
\* here: node, edge, failing and explicit stay empty.)
KeyIds == {"C.a", "C.b", "C.data", "P.data"}
Structs == {"C", "P"}
KeyNames == {"a", "b", "data"}
NoKey == "none"

Owner(id) == IF id = "P.data" THEN "P" ELSE "C"
Name(id) == IF id = "C.a" THEN "a" ELSE IF id = "C.b" THEN "b" ELSE "data"

\* The names registered for the type of struct s (Dynamic._keys).
Registered(s, name) == \E id \in KeyIds : Owner(id) = s /\ Name(id) = name
KeyId(s, name) == CHOOSE id \in KeyIds : Owner(id) = s /\ Name(id) = name

\* ImperialType.benefactors: the benefactor, then its containers.
Benefactors(s) == IF s = "C" THEN <<"P">> ELSE <<>>

\* The @calculate methods of each Key class, in definition order
\* (Key._calculations), each with the key names it reads (calc._refs) in
\* argument order.  The child is an Adder (test_dynamic.py) or a Multi, whose
\* data key has three rules and a default and whose b key has a default.
Calculations(id) ==
    IF Owner(id) = "P" THEN <<>>
    ELSE IF ktype = "Adder"
    THEN IF Name(id) = "a"
         THEN <<[refs |-> <<"b", "data">>, fn |-> "data_minus_b"]>>
         ELSE IF Name(id) = "b"
         THEN <<[refs |-> <<"a", "data">>, fn |-> "data_minus_a"]>>
         ELSE <<[refs |-> <<"a", "b">>, fn |-> "a_plus_b"]>>
    ELSE IF Name(id) = "data"
         THEN <<[refs |-> <<"a">>, fn |-> "copy_a"],
                [refs |-> <<"b">>, fn |-> "copy_b"],
                [refs |-> <<"a", "b">>, fn |-> "a_plus_b"]>>
         ELSE <<>>

\* The body of a @calculate method, on the resolved values of its refs.
Apply(fn, env) ==
    IF fn = "data_minus_b" THEN env["data"] - env["b"]
    ELSE IF fn = "data_minus_a" THEN env["data"] - env["a"]
    ELSE IF fn = "a_plus_b" THEN env["a"] + env["b"]
    ELSE IF fn = "copy_a" THEN env["a"]
    ELSE env["b"]

\* Key.default; None stands for NO_DEFAULT.
StaticDefault(id) ==
    IF Owner(id) = "P" THEN 0
    ELSE IF ktype = "Multi" /\ Name(id) = "data" THEN 0
    ELSE IF ktype = "Multi" /\ Name(id) = "b" THEN 1
    ELSE None

\* Key._calc_links as KeyMeta builds it: a copy of the first calculation's
\* refs; the refs of every later calculation are added as ONE element (the
\* set itself), which is no key name.
CalcLinks(id) ==
    IF Calculations(id) = <<>> THEN {} ELSE Range(Calculations(id)[1].refs)

\* Key.hidden
Hidden(id) == id = "P.data" /\ hidden

\* What a caller passes to set: a python int, a numeric string, a value that
\* is already of the key's type, or something int() rejects.
RawInputs == [kind : {"int", "str", "typed"}, n : Values]
                \cup {[kind |-> "bad", n |-> 0]}

\* Key.imperialize: a value of the key's type is returned as it is, anything
\* else goes through type(value), whose normalize is int(value).
Imperialize(raw) ==
    IF raw.kind = "typed" THEN [ok |-> TRUE, val |-> raw.n]
    ELSE IF raw.kind = "bad" THEN [ok |-> FALSE, val |-> None]
    ELSE [ok |-> TRUE, val |-> raw.n]

\* Key.__init__ with data=None: LinkNode(refresh=_refresh_basic, rigid=False).
\* mat: the Key object exists in the struct's key map.  how and staged are
\* history: how the cached value was obtained, and the names staged in the
\* key map of the value struct by add_links_to_keys.
NewKey == [mat |-> TRUE, value |-> None, valid |-> FALSE, rigid |-> FALSE,
           links_in |-> {}, references_in |-> {}, defaulted |-> FALSE,
           how |-> "none", staged |-> {}]

\* OrderedDict.__contains__ on the key map (KeyMap.is_ready).
IsReady(nd, s, name) == Registered(s, name) /\ nd[KeyId(s, name)].mat

\* Dynamic.find_inherited and DynamicKeyMap.__contains__.  (The benefactor
\* chain holds one struct, whose own chain is empty, so benefactor.keys[n]
\* is a stored key whenever n is in benefactor.keys.)
RECURSIVE FindInheritedIn(_, _, _), Contains(_, _, _)
FindInheritedIn(nd, chain, name) ==
    IF chain = <<>> THEN NoKey
    ELSE LET b == Head(chain)
         IN  IF /\ Contains(nd, b, name)
                /\ ~Hidden(KeyId(b, name))
                /\ ~nd[KeyId(b, name)].defaulted
             THEN KeyId(b, name)
             ELSE FindInheritedIn(nd, Tail(chain), name)

Contains(nd, s, name) ==
    \/ IsReady(nd, s, name)
    \/ FindInheritedIn(nd, Benefactors(s), name) # NoKey

FindInherited(nd, s, name) == FindInheritedIn(nd, Benefactors(s), name)

\* ImperialType.has_keys
HasKeys(nd, s, refs) == \A i \in 1..Len(refs) : Contains(nd, s, refs[i])

\* A store that tells no dependent.
StoreValueNoFanout(nd, x, v) ==
    [nd |-> [nd EXCEPT ![x].value = v, ![x].valid = TRUE],
     memo |-> {x}, marks |-> <<>>]

\* The branch of the LinkNode.value setter taken for a new object.
StoreValue(nd, x, v) ==
    InvalidateWalk([nd EXCEPT ![x].value = v, ![x].valid = TRUE],
                   {x}, <<>>, Dependents(nd, x))

\* ImperialType.add_links_to_keys, called on the value struct `default`: the
\* names are looked up in the value's own key map, where none of them is
\* ready, and staged there.  No key of the container is touched.
AddLinksToKeys(nd, id, names) == [nd EXCEPT ![id].staged = names]

Fail(st, res) == [st |-> st, res |-> res, val |-> None]

\* Key.data (the LinkNode.value getter with refresh = _refresh_basic),
\* Key._refresh_basic, Key.get_default and a calculation handler.
RECURSIVE KeyData(_, _, _), RefreshBasic(_, _, _), ScanRules(_, _, _, _, _, _),
          ResolveRefs(_, _, _, _, _)
KeyData(st, id, active) ==
    IF IsCached(st.nd, id)
    THEN [st |-> st, res |-> "ok", val |-> st.nd[id].value]
    ELSE IF id \in active
    THEN Fail(st, "RecursionError")
    ELSE LET r == RefreshBasic([st EXCEPT !.calls = @ \cup {id}], id,
                               active \cup {id})
         IN  IF r.res = "ok"
             THEN [r EXCEPT !.st.nd[id].value = r.val,
                            !.st.nd[id].valid = TRUE]
             ELSE r

RefreshBasic(st, id, active) ==
    LET inherited == FindInherited(st.nd, Owner(id), Name(id))
    IN  IF inherited # NoKey
        THEN \* set_links_out({inherited}, linkmap.parents()): a root link
             \* map has no parents, so nothing is registered.
             LET r == KeyData(st, inherited, active)
             IN  IF r.res = "ok"
                 THEN [r EXCEPT !.st.nd[id].how = "inherited"]
                 ELSE r
        ELSE LET d == ScanRules(st, id, active, 1, FALSE, None)
             IN  IF d.res # "ok" THEN d
                 ELSE LET w == StoreValue(d.st.nd, id, d.val).nd
                          f == [w EXCEPT ![id].defaulted = TRUE,
                                         ![id].how = d.how]
                      IN  [st |-> [d.st EXCEPT !.nd =
                                      AddLinksToKeys(f, id, CalcLinks(id))],
                           res |-> "ok", val |-> d.val]

\* Key.get_default: the generator over the applicable calculations, from
\* calculation i on; `have` says a first result exists, `base` is it.
ScanRules(st, id, active, i, have, base) ==
    LET rules == Calculations(id)
    IN  IF i > Len(rules)
        THEN IF have THEN [st |-> st, res |-> "ok", val |-> base, how |-> "calc"]
             ELSE IF StaticDefault(id) = None
             THEN [st |-> st, res |-> "ImperialKeyError", val |-> None,
                   how |-> "none"]
             ELSE [st |-> st, res |-> "ok", val |-> StaticDefault(id),
                   how |-> "default"]
        ELSE IF ~HasKeys(st.nd, Owner(id), rules[i].refs)
        THEN ScanRules(st, id, active, i + 1, have, base)
        ELSE LET r == ResolveRefs(st, Owner(id), rules[i].refs, active,
                                  <<>>)
             IN  IF r.res # "ok"
                 THEN [st |-> r.st, res |-> r.res, val |-> None, how |-> "none"]
                 ELSE LET x == Apply(rules[i].fn, r.val)
                      IN  IF ~have
                          THEN ScanRules(r.st, id, active, i + 1, TRUE, x)
                          ELSE IF base # x
                          THEN [st |-> r.st, res |-> "ImperialSanityError",
                                val |-> None, how |-> "none"]
                          ELSE ScanRules(r.st, id, active, i + 1, TRUE, base)

\* A calculation handler resolving its refs on the container, in order:
\* container.resolve_by_key(ref) for each, which fails for a name that is
\* not stored in the key map.
ResolveRefs(st, s, refs, active, env) ==
    IF refs = <<>> THEN [st |-> st, res |-> "ok", val |-> env]
    ELSE LET name == Head(refs)
         IN  IF ~IsReady(st.nd, s, name)
             THEN Fail(st, "ImperialKeyError")
             ELSE LET r == KeyData(st, KeyId(s, name), active)
                  IN  IF r.res # "ok" THEN r
                      ELSE ResolveRefs(r.st, s, Tail(refs), active,
                                       [n \in DOMAIN env \cup {name} |->
                                           IF n = name THEN r.val ELSE env[n]])

\* DynamicKeyMap.__getitem__: a name that is "in" the map is looked up in
\* the dict; any other name gets a new Key (Dynamic._make_key), stored under
\* it (KeyMap.__setitem__, which hands the new key the links staged for its
\* name in the container).
KeysGetItem(nd, s, name) ==
    IF Contains(nd, s, name)
    THEN IF IsReady(nd, s, name) THEN [nd |-> nd, res |-> "ok"]
         ELSE [nd |-> nd, res |-> "KeyError"]
    ELSE IF ~Registered(s, name)
    THEN \* Dynamic.key_type raises before anything is stored
         [nd |-> nd, res |-> "ImperialKeyError"]
    ELSE [nd |-> [nd EXCEPT ![KeyId(s, name)] =
                     [NewKey EXCEPT !.links_in = nd[KeyId(s, name)].links_in]],
          res |-> "ok"]

NoKeyOp == [op |-> "none", id |-> NoKey, res |-> "ok", ret |-> None,
            arg |-> [kind |-> "int", n |-> 0], calls |-> {}]

KeyInit ==
    /\ node = <<>> /\ edge = <<>> /\ failing = {} /\ explicit = {} /\ io = <<>>
    /\ kd = [id \in KeyIds |-> [NewKey EXCEPT !.mat = FALSE]]
    /\ ktype \in {"Adder", "Multi"}
    /\ hidden \in BOOLEAN
    /\ last = NoKeyOp

\* Dynamic.set_by_key, Key.set and the Key.data setter, which stores a fresh
\* copy of the value (value(container=self)).
SetByKey(nd, s, name, raw) ==
    LET id == KeyId(s, name)
        g == KeysGetItem(nd, s, name)
        v == Imperialize(raw)
        res == IF g.res # "ok" THEN "KeyError"
               ELSE IF ~v.ok THEN "ValueError" ELSE "ok"
    IN  [nd |-> IF res # "ok" THEN g.nd
                ELSE [StoreValue(g.nd, id, v.val).nd EXCEPT
                         ![id].defaulted = FALSE, ![id].how = "set",
                         ![id].staged = {}],
         res |-> res]

\* struct.set(name, raw)
StructSet(s, name, raw) ==
    LET r == SetByKey(kd, s, name, raw)
    IN  /\ kd' = r.nd
        /\ last' = [op |-> "kset", id |-> KeyId(s, name), res |-> r.res,
                    ret |-> None, arg |-> raw, calls |-> {}]
        /\ UNCHANGED <<ktype, hidden>>

\* struct.get(name): ImperialType.get_by_key, resolve_by_key and key().
StructGet(s, name) ==
    LET id == KeyId(s, name)
        g == KeysGetItem(kd, s, name)
        r == IF g.res # "ok"
             THEN Fail([nd |-> g.nd, calls |-> {}], "ImperialKeyError")
             ELSE KeyData([nd |-> g.nd, calls |-> {}], id, {})
    IN  /\ kd' = r.st.nd
        /\ last' = [op |-> "kget", id |-> id, res |-> r.res, ret |-> r.val,
                    arg |-> NoKeyOp.arg, calls |-> r.st.calls]
        /\ UNCHANGED <<ktype, hidden>>

KeyNext ==
    \/ \E id \in KeyIds, raw \in RawInputs :
          StructSet(Owner(id), Name(id), raw) /\ UNCHANGED <<nodeVars, io>>
    \/ \E id \in KeyIds :
          StructGet(Owner(id), Name(id)) /\ UNCHANGED <<nodeVars, io>>

SpecKey == KeyInit /\ [][KeyNext]_vars

\* ------------------------------------------------- set with a dict
\* ImperialType.set_all: the items are set one after the other, in the
\* order of the dict; the first set that raises ends the call.
RECURSIVE SetAll(_, _, _)
SetAll(nd, s, items) ==
    IF items = <<>> THEN [nd |-> nd, res |-> "ok", id |-> NoKey]
    ELSE LET r == SetByKey(nd, s, Head(items)[1], Head(items)[2])
         IN  IF r.res # "ok"
             THEN [nd |-> r.nd, res |-> r.res, id |-> KeyId(s, Head(items)[1])]
             ELSE SetAll(r.nd, s, Tail(items))

\* The dicts passed to set: two keys of the child, each with a python int
\* or with something int() rejects.
BatchInputs ==
    {<<<<n1, r1>>, <<n2, r2>>>> :
        n1 \in {"a", "b"}, n2 \in {"a", "b"},
        r1 \in {r \in RawInputs : r.kind \in {"int", "bad"}},
        r2 \in {r \in RawInputs : r.kind \in {"int", "bad"}}} \ 
    {<<<<n, r1>>, <<n, r2>>>> :
        n \in {"a", "b"},
        r1 \in RawInputs, r2 \in RawInputs}

\* struct.set({name: raw, ...})
StructSetAll(s, items) ==
    LET r == SetAll(kd, s, items)
    IN  /\ kd' = r.nd
        /\ last' = [op |-> "ksetall", id |-> r.id, res |-> r.res,
                    ret |-> None, arg |-> NoKeyOp.arg, calls |-> {}]
        /\ UNCHANGED <<ktype, hidden>>

BatchNext ==
    \/ KeyNext
    \/ \E items \in BatchInputs : StructSetAll("C", items) /\ UNCHANGED <<nodeVars, io>>

\* An Adder whose benefactor's key is not hidden.
BatchInit ==
    /\ node = <<>> /\ edge = <<>> /\ failing = {} /\ explicit = {} /\ io = <<>>
    /\ kd = [id \in KeyIds |-> [NewKey EXCEPT !.mat = FALSE]]
    /\ ktype = "Adder" /\ hidden = FALSE
    /\ last = NoKeyOp

SpecBatch == BatchInit /\ [][BatchNext]_vars

\* ------------------------------------------ keys with registered dependents
\* Two more cache nodes, registered as dependents with add_link: LinkNode
\* objects whose refresh callable reads nothing and returns 0.
Observers == {"o1", "o2"}

NewObserver(rigid) ==
    [NewKey EXCEPT !.value = 0, !.valid = TRUE, !.rigid = rigid]

\* The add_link calls made before the run, <<t, d>> for t.add_link(d): o1
\* depends on key a and o2 on o1; key a may depend on o1.
LinkAlways == {<<"C.a", "o1">>, <<"o1", "o2">>}
LinkChoices == {<<"o1", "C.a">>}

\* The Adder with its key a created (struct.key("a")), the two observers
\* read once, and a set of add_link calls made; o1 may be rigid.
LinkedInit ==
    /\ node = <<>> /\ edge = <<>> /\ failing = {} /\ explicit = {} /\ io = <<>>
    /\ ktype = "Adder" /\ hidden = FALSE /\ last = NoKeyOp
    /\ \E L \in SUBSET LinkChoices, rigid \in BOOLEAN :
          kd = [id \in KeyIds \cup Observers |->
                  [(IF id \in Observers THEN NewObserver(id = "o1" /\ rigid)
                    ELSE [NewKey EXCEPT !.mat = (id = "C.a")])
                   EXCEPT !.links_in = {d \in KeyIds \cup Observers :
                                           <<id, d>> \in L \cup LinkAlways}]]

\* x = observer.value: the LinkNode.value getter.
ObserverGet(o) ==
    /\ kd' = IF IsCached(kd, o) THEN kd
             ELSE [kd EXCEPT ![o].value = 0, ![o].valid = TRUE]
    /\ last' = [op |-> "oget", id |-> o, res |-> "ok", ret |-> 0,
                arg |-> NoKeyOp.arg,
                calls |-> IF IsCached(kd, o) THEN {} ELSE {o}]
    /\ UNCHANGED <<ktype, hidden>>

LinkedNext ==
    \/ KeyNext
    \/ \E o \in Observers : ObserverGet(o) /\ UNCHANGED <<nodeVars, io>>

SpecLinked == LinkedInit /\ [][LinkedNext]_vars

\* ================================================================ properties
\* The registered dependents of node x, of both kinds.
DirectDependents(nd, x) == nd[x].links_in \cup nd[x].references_in

\* Every node that can be reached from the nodes W along dependents.
RECURSIVE Reached(_, _)
Reached(nd, W) ==
    LET more == UNION {DirectDependents(nd, w) : w \in W}
    IN  IF more \subseteq W THEN W ELSE Reached(nd, W \cup more)

\* The nodes that can be reached from the nodes W along dependents that are
\* neither rigid nor in `block`, every node passed being one of these too.
RECURSIVE Walked(_, _, _)
Walked(nd, W, block) ==
    LET more == {y \in UNION {DirectDependents(nd, w) : w \in W} :
                    ~nd[y].rigid /\ y \notin block}
    IN  IF more \subseteq W THEN W ELSE Walked(nd, W \cup more, block)

Count(s, y) == Cardinality({i \in 1..Len(s) : s[i] = y})

\* Everything node x's refresh depends on, directly or not.
RECURSIVE ReadClosure(_)
ReadClosure(S) ==
    LET more == UNION {ReadsOf(y) : y \in S}
    IN  IF more \subseteq S THEN S ELSE ReadClosure(S \cup more)

\* What node x's refresh callable would return if invoked now.
WouldRefresh(x) ==
    LET r == ReadAll([nd |-> node, calls |-> {}], Order(ReadsOf(x)), {x}, 0)
    IN  IF r.ok /\ x \notin failing THEN RefreshResult(x, r.val) ELSE None

\* ------------------------------------------------------------------- C5
\* C5 as stated: invalidate on a non-rigid node marks every non-rigid node
\* that can be reached from it invalid, exactly once.
C5_AllReachableMarkedOnce ==
    (last.op = "invalidate" /\ ~node[last.n].rigid)
        => \A y \in Reached(node, {last.n}) :
              ~node[y].rigid => Count(last.marks, y) = 1

\* C5 amended: invalidate ends; on a non-rigid node it marks invalid, exactly
\* once each, the node and every non-rigid node that can be reached from it
\* along dependents without passing a rigid node, and no other node; on a
\* rigid node it marks nothing.
C5_WalkedMarkedOnce ==
    last.op = "invalidate"
        => IF node[last.n].rigid THEN last.marks = <<>>
           ELSE /\ Range(last.marks) = Walked(node, {last.n}, {})
                /\ \A y \in Range(last.marks) :
                      Count(last.marks, y) = 1 /\ ~node[y].valid

\* C5 happens: an invalidate that went round a cycle, through a link and a
\* reference, and came back to the node it started on.
C5_Witness ==
    /\ last.op = "invalidate"
    /\ Len(last.marks) >= 2
    /\ \E y \in Range(last.marks) \ {last.n} :
          last.n \in DirectDependents(node, y)
    /\ \E y \in Range(last.marks) : node[y].references_in # {}

\* ------------------------------------------------------------------- C6
\* C6 as stated: every valid node holds the value its refresh would return
\* from the current values of its dependencies.
C6_ValidIsFresh ==
    \A x \in Nodes : node[x].valid => node[x].value = WouldRefresh(x)

\* C6 amended: every valid node that is not rigid and whose cached value
\* was produced by its refresh, not stored by a set, holds the value its
\* refresh would return from the current values of its dependencies.
C6_ComputedIsFresh ==
    \A x \in Nodes :
        (node[x].valid /\ ~node[x].rigid /\ x \notin explicit)
            => node[x].value = WouldRefresh(x)

\* C6 happens: a get has just recomputed a node from a dependency whose
\* value was stored by a set.
C6_Witness ==
    /\ last.op = "get" /\ last.ok
    /\ \E x \in last.calls :
          /\ node[x].valid /\ ~node[x].rigid /\ x \notin explicit
          /\ ReadsOf(x) \cap explicit # {}
          /\ node[x].value # RefreshResult(x, 0)

\* ------------------------------------------------------------------- C7
\* C7: refresh runs only inside a get and only for nodes that were invalid;
\* a get changes no valid node and returns the cached value of a valid node
\* without any refresh; a set or invalidate on a node that is neither the
\* node nor one of its dependencies leaves the node as it was.
C7_RefreshOnlyWhenInvalid ==
    [][ /\ last'.op = "get"
            => /\ \A y \in last'.calls : ~node[y].valid
               /\ \A y \in Nodes : node[y].valid => node'[y] = node[y]
               /\ node[last'.n].valid
                     => /\ last'.calls = {} /\ last'.ok
                        /\ last'.ret = node[last'.n].value
               /\ last'.ok => /\ node'[last'.n].valid
                              /\ node'[last'.n].value = last'.ret
        /\ last'.op \in {"set", "invalidate"}
            => /\ last'.calls = {}
               /\ \A y \in Nodes :
                     last'.n \notin ReadClosure({y}) => node'[y] = node[y]
      ]_vars

\* C7 happens: a second read of a computed node with dependencies, served
\* from the cache.
C7_Witness ==
    /\ last.op = "get" /\ last.ok /\ last.calls = {}
    /\ ReadsOf(last.n) # {}
    /\ last.n \notin explicit /\ ~node[last.n].rigid

\* ------------------------------------------------------------------ C10
\* C10: when the refresh run by a get fails, the node stays invalid and keeps
\* the value it had, and so does every node whose refresh failed on the way;
\* the next get of the node invokes refresh again.
C10_FailedRefreshLeavesInvalid ==
    [][ (last'.op = "get" /\ ~last'.ok)
            => /\ ~node'[last'.n].valid
               /\ node'[last'.n].value = node[last'.n].value
               /\ \A y \in last'.calls :
                     ~node'[y].valid => node'[y] = node[y]
               /\ last'.n \in
                     GetValue([nd |-> node', calls |-> {}], last'.n, {}).st.calls
      ]_vars

\* C10 happens: a get failed in the refresh of a node that holds an older
\* value.
C10_Witness ==
    /\ last.op = "get" /\ ~last.ok
    /\ last.n \in last.calls
    /\ node[last.n].value # None

\* ------------------------------------------------------- keys: helpers
\* The calculations of key id that are applicable now (has_keys on refs).
Applicable(nd, id) ==
    {i \in 1..Len(Calculations(id)) :
        HasKeys(nd, Owner(id), Calculations(id)[i].refs)}

\* What calculation i of key id yields from the current values of its refs.
RuleNow(nd, id, i) ==
    LET r == ResolveRefs([nd |-> nd, calls |-> {}], Owner(id),
                         Calculations(id)[i].refs, {id}, <<>>)
    IN  IF r.res = "ok"
        THEN [ok |-> TRUE, val |-> Apply(Calculations(id)[i].fn, r.val)]
        ELSE [ok |-> FALSE, val |-> None]

\* What get_default of key id would return now.
Fresh(nd, id) == ScanRules([nd |-> nd, calls |-> {}], id, {id}, 1, FALSE, None)

\* ------------------------------------------------------------------- C1
\* C1 as stated: a read of a key whose cached value came from its rules
\* returns what the rules give from the current values of the keys they
\* name, also after one of those keys was set to a different value.
C1_RereadIsRecomputed ==
    (/\ last.op = "kget" /\ last.res = "ok"
     /\ kd[last.id].how = "calc"
     /\ Fresh(kd, last.id).res = "ok")
        => last.ret = Fresh(kd, last.id).val

\* ------------------------------------------------------------------- C2
\* C2 as stated: a successful read of a key with no explicit and no
\* inherited value, two or more of whose rules are applicable, returns a
\* value that every applicable rule yields.
C2_ApplicableRulesAgree ==
    (/\ last.op = "kget" /\ last.res = "ok"
     /\ kd[last.id].how \in {"calc", "default"}
     /\ FindInherited(kd, Owner(last.id), Name(last.id)) = NoKey
     /\ Cardinality(Applicable(kd, last.id)) >= 2)
        => \A i \in Applicable(kd, last.id) :
              RuleNow(kd, last.id, i).ok
                  => RuleNow(kd, last.id, i).val = last.ret

\* ------------------------------------------------------------------- C3
\* C3 as stated: on the Adder with an untouched benefactor, once a and b
\* have been set and data has not,
\* a read of a returns a, of b returns b and of data returns a + b; with
\* only a set and b never touched, a read of data fails with key-not-found.
C3_AdderReads ==
    (/\ ktype = "Adder"
     /\ last.op = "kget" /\ Owner(last.id) = "C"
     /\ ~kd["P.data"].mat
     /\ kd["C.a"].how = "set" /\ kd["C.data"].how # "set")
        => IF kd["C.b"].how = "set"
           THEN /\ last.res = "ok"
                /\ last.ret = IF last.id = "C.a" THEN kd["C.a"].value
                              ELSE IF last.id = "C.b" THEN kd["C.b"].value
                              ELSE kd["C.a"].value + kd["C.b"].value
           ELSE (last.id = "C.data" /\ ~kd["C.b"].mat)
                    => last.res = "ImperialKeyError"

\* ------------------------------------------------------------------- C4
\* C4 as stated: a read of a key with no cached value takes the value of a
\* non-defaulted, non-hidden key of that name on a benefactor if there is
\* one; else the result of the applicable rules if there are any; else the
\* static default if there is one; else it fails with key-not-found.
C4_SourceOrder ==
    [][ \A id \in KeyIds :
          (/\ last'.op = "kget" /\ last'.id = id
           /\ ~(kd[id].mat /\ kd[id].valid))
            => LET inh == FindInherited(kd, Owner(id), Name(id))
               IN  IF inh # NoKey
                   THEN kd[inh].valid
                           => /\ last'.res = "ok"
                              /\ last'.ret = kd[inh].value
                   ELSE IF Applicable(kd, id) # {}
                   THEN last'.res = "ok" => kd'[id].how = "calc"
                   ELSE IF StaticDefault(id) # None
                   THEN last'.res = "ok" /\ last'.ret = StaticDefault(id)
                   ELSE last'.res = "ImperialKeyError"
      ]_vars

\* ------------------------------------------------------------------- C8
\* C8 as stated: after a set on a key the key is not defaulted, a read of it
\* returns the normalized value, and every node that can be reached from the
\* key along registered dependents is invalid.
C8_AllDependentsInvalid ==
    (last.op = "kset" /\ last.res = "ok")
        => /\ ~kd[last.id].defaulted
           /\ KeyData([nd |-> kd, calls |-> {}], last.id, {}).res = "ok"
           /\ KeyData([nd |-> kd, calls |-> {}], last.id, {}).val
                 = Imperialize(last.arg).val
           /\ \A d \in Reached(kd, DirectDependents(kd, last.id)) :
                 ~kd[d].valid

\* C8 amended: after a set on a key the key is not defaulted, a read of it
\* returns the normalized value without a refresh, and every non-rigid node
\* other than the key's own that can be reached from the key along
\* dependents, without passing a rigid node or the key, is invalid.
C8_WalkedDependentsInvalid ==
    (last.op = "kset" /\ last.res = "ok")
        => /\ ~kd[last.id].defaulted
           /\ KeyData([nd |-> kd, calls |-> {}], last.id, {}).res = "ok"
           /\ KeyData([nd |-> kd, calls |-> {}], last.id, {}).val
                 = Imperialize(last.arg).val
           /\ KeyData([nd |-> kd, calls |-> {}], last.id, {}).st.calls = {}
           /\ \A d \in Walked(kd, {y \in DirectDependents(kd, last.id) :
                                     ~kd[y].rigid /\ y # last.id},
                              {last.id}) :
                 ~kd[d].valid

\* C8 happens: a set of a numeric string on key a has invalidated its
\* dependent o1 and, through it, o2.
C8_Witness ==
    /\ last.op = "kset" /\ last.res = "ok" /\ last.id = "C.a"
    /\ last.arg.kind = "str"
    /\ "o1" \in kd["C.a"].links_in /\ "o2" \in kd["o1"].links_in
    /\ ~kd["o1"].valid /\ ~kd["o2"].valid
    /\ kd["C.a"].valid /\ kd["C.a"].value = last.arg.n

\* ------------------------------------------------------------------- C9
\* C9 as stated, for a key that was set: a successful read of the key
\* returns a value that every applicable rule yields.
C9_SetValueAgreesWithRules ==
    (/\ last.op = "kget" /\ last.res = "ok"
     /\ kd[last.id].how = "set")
        => \A i \in Applicable(kd, last.id) :
              RuleNow(kd, last.id, i).ok
                  => RuleNow(kd, last.id, i).val = last.ret

\* ------------------------------------------------------------------ C11
\* C11 as stated: a get or set call that fails leaves every key that had
\* an explicitly set value holding that value, its defaulted flag false.
C11_FailureKeepsCommitted ==
    [][ (last'.res # "ok")
            => \A id \in KeyIds :
                  kd[id].how = "set"
                      => /\ kd'[id].value = kd[id].value
                         /\ kd'[id].valid /\ ~kd'[id].defaulted
      ]_vars

\* ---------------------------------------------------------------- util.py
\* The index i of a python slice of a sequence of n items, as python clips it.
PyIndex(n, i) ==
    IF i < 0 THEN (IF n + i < 0 THEN 0 ELSE n + i)
    ELSE IF i > n THEN n ELSE i

\* seq[a:b] of python, for any integers a and b.
PySlice(seq, a, b) ==
    LET lo == PyIndex(Len(seq), a)
        hi == PyIndex(Len(seq), b)
    IN  IF hi <= lo THEN <<>> ELSE SubSeq(seq, lo + 1, hi)

Min(a, b) == IF a < b THEN a ELSE b

\* RawBytesIO(blob)
NewRaw(bytes) == [blob |-> bytes, length |-> Len(bytes), cursor |-> 0]

\* raw.seek(offset): only the upper end is clipped.
RawSeek(raw, offset) ==
    [raw EXCEPT !.cursor = IF offset > raw.length THEN raw.length ELSE offset]

\* raw.readall(); `at` is the position of the first byte returned.
RawReadAll(raw) ==
    [raw |-> [raw EXCEPT !.cursor = raw.length],
     ret |-> PySlice(raw.blob, raw.cursor, Len(raw.blob)),
     at |-> PyIndex(Len(raw.blob), raw.cursor)]

\* raw.read(size)
RawRead(raw, size) ==
    IF size = -1 THEN RawReadAll(raw)
    ELSE [raw |-> [raw EXCEPT !.cursor = raw.cursor + size],
          ret |-> PySlice(raw.blob, raw.cursor, raw.cursor + size),
          at |-> PyIndex(Len(raw.blob), raw.cursor)]

\* raw.write(b): blob[start:start+to_write] = b[:to_write]
RawWrite(raw, b) ==
    LET start == raw.cursor
        to_write == Min(Len(b), raw.length - start)
        lo == PyIndex(Len(raw.blob), start)
        hi == PyIndex(Len(raw.blob), start + to_write)
        top == IF hi < lo THEN lo ELSE hi
        put == PySlice(b, 0, to_write)
    IN  [raw |-> [raw EXCEPT
                    !.blob = SubSeq(raw.blob, 1, lo) \o put
                                \o SubSeq(raw.blob, top + 1, Len(raw.blob)),
                    !.cursor = start + to_write],
         ret |-> to_write, at |-> lo, put |-> put]

\* BytesBuffer(raw, base=base, size=size): a window of a backing stream.
NewWindow(base, size) == [base |-> base, end |-> base + size, cursor |-> 0]

\* BytesBuffer(bytes): an unbounded buffer of its own.
NewBuffer(bytes) == [base |-> 0, end |-> Len(bytes), cursor |-> 0]

\* buffer.readall(): the cursor becomes _end, whatever the base is.
BufReadAll(raw, buf) ==
    LET start == buf.base + buf.cursor
        r == RawRead(RawSeek(raw, start), buf.end - start)
    IN  [raw |-> r.raw, buf |-> [buf EXCEPT !.cursor = buf.end],
         ret |-> r.ret, at |-> r.at]

\* buffer.read(size)
BufRead(raw, buf, size) ==
    IF size = -1 THEN BufReadAll(raw, buf)
    ELSE LET start == buf.base + buf.cursor
             sz == IF start + size > buf.end THEN buf.end - start ELSE size
             r == RawRead(RawSeek(raw, start), sz)
         IN  [raw |-> r.raw,
              buf |-> [buf EXCEPT !.cursor = r.raw.cursor - buf.base],
              ret |-> r.ret, at |-> r.at]

\* buffer.write(b)
BufWrite(raw, buf, b) ==
    LET start == buf.base + buf.cursor
        cut == IF start + Len(b) > buf.end
               THEN PySlice(b, 0, buf.end - start) ELSE b
        r == RawWrite(RawSeek(raw, start), cut)
    IN  [raw |-> r.raw, buf |-> [buf EXCEPT !.cursor = buf.cursor + r.ret],
         ret |-> r.ret, at |-> r.at, put |-> r.put]

\* buffer.seek(offset)
BufSeek(buf, offset) ==
    [buf EXCEPT !.cursor = IF buf.base + offset > buf.end
                           THEN buf.end - buf.base ELSE offset]

\* buffer.tell()
BufTell(buf) == buf.cursor

\* ------------------------------------------------- core/serializable.py
\* The resumable parse of the Pair struct of test_serializable.py.
MaxParses == 2
ByteWidth == 256
FieldBytes == 2
Insts == {"p", "q"}
Fields == {"left", "right"}
ByteStrings == << <<1, 0, 2, 0>>, <<3, 0, 4, 1>> >>
Untils == {{""}, {}, {"left"}, {"right"}, {"left", "right"}}
SeekOffsets == {3}

\* int.from_bytes(bs, "little")
RECURSIVE FromBytes(_)
FromBytes(bs) ==
    IF bs = <<>> THEN 0 ELSE Head(bs) + ByteWidth * FromBytes(Tail(bs))

\* self.keys.contains_quick(key): the struct holds a Key of that name.
ContainsQuick(st, s, key) ==
    key \in Fields /\ st.flds[s][key] # None

\* self.set(key, {"": value, "size": 2}) for a PosInt key of the Pair.
SetField(st, s, key, value) ==
    [st EXCEPT !.flds[s][key] = value]

\* next(generator) of Pair.unserialize: one blob.read(2) per field.
GenNext(st, g) ==
    CHOOSE out \in
        {IF pc >= 2
         THEN [st |-> [st EXCEPT !.gens[g].pc = 3], done |-> TRUE,
               key |-> "", value |-> None, read |-> <<>>]
         ELSE CHOOSE o \in
                  {[st |-> [st EXCEPT !.gens[g].pc = pc + 1,
                                      !.raws[b] = r.raw, !.bufs[b] = r.buf],
                    done |-> FALSE,
                    key |-> IF pc = 0 THEN "left" ELSE "right",
                    value |-> FromBytes(r.ret),
                    read |-> << [blob |-> b, at |-> st.bufs[b].cursor,
                                 n |-> Len(r.ret),
                                 key |-> IF pc = 0 THEN "left" ELSE "right"] >>] :
                      r \in {BufRead(st.raws[b], st.bufs[b], FieldBytes)}} : TRUE :
            b \in {st.gens[g].blob}, pc \in {st.gens[g].pc}} : TRUE

\* for key, value in last_generator: self.set(key, value); until.discard(key);
\* if not until: break
RECURSIVE Drain(_, _, _, _, _)
Drain(st, s, g, until, reads) ==
    CHOOSE out \in
        {IF n.done THEN [st |-> n.st, reads |-> reads]
         ELSE CHOOSE o \in
                  {IF until \ {n.key} = {}
                   THEN [st |-> set, reads |-> reads \o n.read]
                   ELSE Drain(set, s, g, until \ {n.key}, reads \o n.read) :
                       set \in {SetField(n.st, s, n.key, n.value)}} : TRUE :
            n \in {GenNext(st, g)}} : TRUE

\* resolver(self).run(blob): the struct's BoundReferenceHandler returns its
\* cached result when it has one, and calls the method otherwise.
Run(st, s, b) ==
    IF st.hcache[s] # 0 THEN [st |-> st, ret |-> st.hcache[s]]
    ELSE [st |-> [st EXCEPT !.gens = Append(st.gens, [blob |-> b, pc |-> 0]),
                            !.hcache[s] = Len(st.gens) + 1],
          ret |-> Len(st.gens) + 1]

\* The call without data, had it left the stream's cursor where it was.
RestoreSkipped(st) == st

\* blob = last_blob; blob.seek(last_position)
Restore(st) ==
    [st EXCEPT !.bufs[st.last_blob] =
                   BufSeek(st.bufs[st.last_blob], st.last_position)]

\* The handler of unserialize_yield; arg is 0 for a call without data and
\* the index of a byte string otherwise.
Handler(st, s, arg, until) ==
    IF arg = 0 /\ st.last_blob = 0
    THEN [st |-> st, res |-> "NameError", reads |-> <<>>]
    ELSE CHOOSE out \in
        {CHOOSE o \in
             {[st |-> [d.st EXCEPT !.last_position =
                                       BufTell(d.st.bufs[st1.last_blob])],
               res |-> "ok", reads |-> d.reads] :
                 d \in {IF left # {}
                        THEN Drain(st1, s, st1.last_generator, left, <<>>)
                        ELSE [st |-> st1, reads |-> <<>>]}} : TRUE :
            st1 \in {IF arg = 0 THEN Restore(st)
                     ELSE CHOOSE f \in
                              {[run.st EXCEPT !.last_generator = run.ret] :
                                  run \in {Run([st EXCEPT
                                      !.raws = Append(st.raws, NewRaw(ByteStrings[arg])),
                                      !.bufs = Append(st.bufs, NewBuffer(ByteStrings[arg])),
                                      !.last_blob = Len(st.bufs) + 1],
                                      s, Len(st.bufs) + 1)}} : TRUE},
            left \in {{key \in until : ~ContainsQuick(st, s, key)}}} : TRUE

\* A parse of a byte string into a new struct with the default until.
EagerParse(arg) ==
    LET st == [flds |-> [s \in {"p"} |-> [f \in Fields |-> None]],
               raws |-> <<>>, bufs |-> <<>>, gens |-> <<>>,
               hcache |-> [s \in {"p"} |-> 0],
               last_blob |-> 0, last_position |-> 0, last_generator |-> 0]
    IN  Handler(st, "p", arg, {""}).st.flds["p"]

NoParseOp ==
    [op |-> "none", id |-> "", res |-> "ok", arg |-> 0, until |-> {},
     reads |-> <<>>, moved |-> FALSE]

ParseInit ==
    /\ node = <<>> /\ edge = <<>> /\ failing = {} /\ explicit = {}
    /\ kd = <<>> /\ ktype = "Adder" /\ hidden = FALSE
    /\ last = NoParseOp
    /\ io = [flds |-> [s \in Insts |-> [f \in Fields |-> None]],
             raws |-> <<>>, bufs |-> <<>>, gens |-> <<>>,
             hcache |-> [s \in Insts |-> 0],
             last_blob |-> 0, last_position |-> 0, last_generator |-> 0,
             began |-> [s \in Insts |-> 0],
             resumed |-> [s \in Insts |-> 0],
             stop |-> <<0, 0>>, moved |-> FALSE]

\* Where the stream read by the generator stands: its buffer and cursor.
StopOf(st) ==
    IF st.last_generator = 0 THEN <<0, 0>>
    ELSE LET b == st.gens[st.last_generator].blob
         IN  <<b, BufTell(st.bufs[b])>>

\* struct.unserialize(bytes, until)
Unserialize(s, arg, until) ==
    /\ Len(io.bufs) < MaxParses
    /\ \E r \in {Handler(io, s, arg, until)} :
         /\ io' = [r.st EXCEPT !.began[s] =
                       IF until = {"left"} /\ \A f \in Fields : io.flds[s][f] = None
                       THEN arg ELSE 0,
                               !.resumed[s] = 0,
                               !.stop = StopOf(r.st), !.moved = FALSE]
         /\ last' = [op |-> "parse", id |-> s, res |-> r.res, arg |-> arg,
                     until |-> until, reads |-> r.reads, moved |-> io.moved]

\* struct.unserialize(until=until): no new data
Resume(s, until) ==
    \E r \in {Handler(io, s, 0, until)} :
        /\ io' = [r.st EXCEPT !.resumed[s] =
                      IF r.res = "ok" /\ io.resumed[s] < 2
                      THEN io.resumed[s] + 1 ELSE io.resumed[s],
                            !.stop = StopOf(r.st), !.moved = FALSE]
        /\ last' = [op |-> "resume", id |-> s, res |-> r.res, arg |-> 0,
                    until |-> until, reads |-> r.reads, moved |-> io.moved]

\* The holder of the stream of the last parse moves its cursor.
StreamSeek(offset) ==
    /\ io.last_blob # 0
    /\ io' = [io EXCEPT !.bufs[io.last_blob] = BufSeek(io.bufs[io.last_blob], offset),
                        !.moved = io.moved \/ BufTell(io.bufs[io.last_blob]) # offset]
    /\ last' = [op |-> "seek", id |-> "", res |-> "ok", arg |-> offset,
                until |-> {}, reads |-> <<>>, moved |-> FALSE]

ParseNext ==
    \/ \E s \in Insts, arg \in 1..Len(ByteStrings), until \in Untils :
          Unserialize(s, arg, until) /\ UNCHANGED <<nodeVars, keyVars>>
    \/ \E s \in Insts, until \in Untils :
          Resume(s, until) /\ UNCHANGED <<nodeVars, keyVars>>
    \/ \E offset \in SeekOffsets :
          StreamSeek(offset) /\ UNCHANGED <<nodeVars, keyVars>>

SpecParse == ParseInit /\ [][ParseNext]_vars

\* ------------------------------------------------------------------ C12
\* C12 as stated: a resumable parse of a struct without fields that asks
\* for the first field sets it and leaves the second absent, and the
\* struct's next call without data sets the rest: the fields then equal
\* those of an eager parse of the same bytes.
C12_ResumableEqualsEager ==
    \A s \in Insts :
        (io.began[s] # 0 /\ last.id = s /\ last.res = "ok")
            => /\ last.op = "parse"
                    => /\ io.flds[s]["left"] = EagerParse(io.began[s])["left"]
                       /\ io.flds[s]["right"] = None
               /\ (last.op = "resume" /\ io.resumed[s] = 1 /\ last.until = {""})
                    => io.flds[s] = EagerParse(io.began[s])

\* ------------------------------------------------------------------ C13
\* The requested names the struct does not hold yet.
Needed(st, s, until) == {key \in until : ~ContainsQuick(st, s, key)}

C13_WitnessAllHeld ==
    /\ last.op = "resume" /\ last.res = "ok" /\ last.until = {"left"}
    /\ io.flds[last.id]["left"] # None /\ io.flds[last.id]["right"] = None
    /\ last.reads = <<>>

\* --------------------------------------- serialize / unserialize (PosInt)
\* The PosInt struct of test_serializable.py with a size of two bytes, and
\* a stream that is a window of a backing stream.
CodecSize == 2
CodecBase == 1
PosInts == {"x", "y"}
CodecValues == {1, 258, 65536}
Backing == <<9, 9, 9, 9>>

RECURSIVE Pow(_, _)
Pow(b, n) == IF n = 0 THEN 1 ELSE b * Pow(b, n - 1)

\* v.to_bytes(n, "little") for 0 <= v < 256^n
RECURSIVE ToBytes(_, _)
ToBytes(v, n) ==
    IF n = 0 THEN <<>> ELSE <<v % ByteWidth>> \o ToBytes(v \div ByteWidth, n - 1)

Zeros(n) == [i \in 1..n |-> 0]

\* PosInt.serialize: blob.write(self._data.to_bytes(self.get("size"), "little"))
PosIntSerialize(st, s, raw, buf) ==
    IF st.data[s] = None THEN [raw |-> raw, buf |-> buf, res |-> "AttributeError"]
    ELSE IF st.data[s] >= Pow(ByteWidth, CodecSize)
    THEN [raw |-> raw, buf |-> buf, res |-> "OverflowError"]
    ELSE CHOOSE out \in
             {[raw |-> w.raw, buf |-> w.buf, res |-> "ok"] :
                 w \in {BufWrite(raw, buf, ToBytes(st.data[s], CodecSize))}} : TRUE

\* resolver(self).run(blob) of serialize: BoundReferenceHandler.run returns
\* the cached result of the struct's first successful call.
RunSerialize(st, s, raw, buf) ==
    IF st.scache[s] THEN [st |-> st, raw |-> raw, buf |-> buf, res |-> "ok"]
    ELSE CHOOSE out \in
             {[st |-> [st EXCEPT !.scache[s] = (r.res = "ok")],
               raw |-> r.raw, buf |-> r.buf, res |-> r.res] :
                 r \in {PosIntSerialize(st, s, raw, buf)}} : TRUE

\* struct.serialize(): a buffer of the struct's size, written, read back.
SerializeBytes(st, s) ==
    CHOOSE out \in
        {[st |-> r.st, res |-> r.res,
          ret |-> IF r.res = "ok"
                  THEN BufReadAll(r.raw, BufSeek(r.buf, 0)).ret ELSE <<>>] :
            r \in {RunSerialize(st, s, NewRaw(Zeros(CodecSize)),
                                NewWindow(0, CodecSize))}} : TRUE

\* PosInt.unserialize: int.from_bytes(blob.read(self.get("size")), "little")
PosIntUnserialize(raw, buf) ==
    FromBytes(BufRead(raw, buf, CodecSize).ret)

\* resolver(self).run(blob) of unserialize
RunUnserialize(st, s, raw, buf) ==
    IF st.ucache[s] # None THEN [st |-> st, ret |-> st.ucache[s]]
    ELSE CHOOSE out \in
             {[st |-> [st EXCEPT !.ucache[s] = v], ret |-> v] :
                 v \in {PosIntUnserialize(raw, buf)}} : TRUE

\* struct.unserialize(bytes)
UnserializeBytes(st, s, bytes) ==
    IF bytes = <<>> THEN st
    ELSE CHOOSE out \in
             {[r.st EXCEPT !.data[s] = r.ret] :
                 r \in {RunUnserialize(st, s, NewRaw(bytes), NewBuffer(bytes))}} : TRUE

NoCodecOp ==
    [op |-> "none", id |-> "", res |-> "ok", ret |-> <<>>, arg |-> None, at |-> 0]

CodecInit ==
    /\ node = <<>> /\ edge = <<>> /\ failing = {} /\ explicit = {}
    /\ kd = <<>> /\ ktype = "Adder" /\ hidden = FALSE
    /\ last = NoCodecOp
    /\ io = [data |-> [s \in PosInts |-> None],
             scache |-> [s \in PosInts |-> FALSE],
             ucache |-> [s \in PosInts |-> None],
             out |-> [by |-> "", bytes |-> <<>>],
             raw |-> NewRaw(Backing),
             win |-> NewWindow(CodecBase, CodecSize)]

\* struct.set(v)
CodecSet(s, v) ==
    /\ io' = [io EXCEPT !.data[s] = v,
                        !.out = IF io.out.by = s THEN [by |-> "", bytes |-> <<>>]
                                ELSE io.out]
    /\ last' = [NoCodecOp EXCEPT !.op = "set", !.id = s, !.arg = v]

\* out = struct.serialize()
CodecSerialize(s) ==
    \E r \in {SerializeBytes(io, s)} :
        /\ io' = [r.st EXCEPT !.out = IF r.res = "ok"
                                      THEN [by |-> s, bytes |-> r.ret]
                                      ELSE io.out]
        /\ last' = [NoCodecOp EXCEPT !.op = "serialize", !.id = s,
                                     !.res = r.res, !.ret = r.ret]

\* struct.serialize(stream)
CodecSerializeStream(s) ==
    \E r \in {RunSerialize(io, s, io.raw, io.win)} :
        /\ io' = [r.st EXCEPT !.raw = r.raw, !.win = r.buf]
        /\ last' = [NoCodecOp EXCEPT !.op = "write", !.id = s, !.res = r.res,
                                     !.at = io.win.cursor]

\* stream.seek(offset)
CodecSeek(offset) ==
    /\ io' = [io EXCEPT !.win = BufSeek(io.win, offset)]
    /\ last' = [NoCodecOp EXCEPT !.op = "seek", !.arg = offset]

\* struct.unserialize(out): the bytes the last serialize() returned
CodecUnserialize(s) ==
    /\ io.out.by # ""
    /\ io' = UnserializeBytes(io, s, io.out.bytes)
    /\ last' = [NoCodecOp EXCEPT !.op = "unserialize", !.id = s,
                                 !.ret = io.out.bytes]

CodecNext ==
    \/ \E s \in PosInts, v \in CodecValues :
          CodecSet(s, v) /\ UNCHANGED <<nodeVars, keyVars>>
    \/ \E s \in PosInts : CodecSerialize(s) /\ UNCHANGED <<nodeVars, keyVars>>
    \/ \E s \in PosInts : CodecSerializeStream(s) /\ UNCHANGED <<nodeVars, keyVars>>
    \/ \E offset \in 0..1 : CodecSeek(offset) /\ UNCHANGED <<nodeVars, keyVars>>
    \/ \E s \in PosInts : CodecUnserialize(s) /\ UNCHANGED <<nodeVars, keyVars>>

SpecCodec == CodecInit /\ [][CodecNext]_vars

\* ------------------------------------------------------------------ C14
\* C14 as stated: unserializing the bytes that serialize() returned for a
\* struct gives the struct they are read into the value of the struct
\* they were written from.
C14_RoundTrip ==
    (last.op = "unserialize" /\ last.res = "ok")
        => io.data[last.id] = io.data[io.out.by]

\* ------------------------------------------------------------------ C15
\* C15 as stated: serialize() returns the encoded value in as many bytes
\* as the struct's size; serialize(stream) writes the encoded bytes at the
\* stream's position and changes no other byte of the backing stream.
C15_SerializeWrites ==
    [][ /\ (last'.op = "serialize" /\ last'.res = "ok")
            => /\ Len(last'.ret) = CodecSize
               /\ FromBytes(last'.ret) = io.data[last'.id]
        /\ (last'.op = "write" /\ last'.res = "ok"
                /\ last'.at + CodecSize <= CodecSize)
            => \A i \in 1..Len(Backing) :
                  io'.raw.blob[i] =
                      IF i - 1 - CodecBase - last'.at \in 0..(CodecSize - 1)
                      THEN ToBytes(io.data[last'.id], CodecSize)[i - CodecBase - last'.at]
                      ELSE io.raw.blob[i]
      ]_vars

\* ------------------------------------------------------- core/number.py
\* Number.serialize into a stream of a given bit count.
NumValues == {-32769, -32768, -129, -128, -1, 0, 127, 128, 255, 256, 32767, 32768, 65535, 65536}
BitCounts == {8, 12, 16}

\* blob.len_bits(): the bit count of the stream
LenBits(buf) == buf.bits

\* len(blob): the stream's size in bytes
LenBytes(buf) == buf.end - buf.base

\* the range of value.to_bytes(nbytes, ..., signed=signed)
Fits(value, nbytes, signed) ==
    IF signed
    THEN /\ 0 - Pow(ByteWidth, nbytes) \div 2 <= value
         /\ value < Pow(ByteWidth, nbytes) \div 2
    ELSE 0 <= value /\ value < Pow(ByteWidth, nbytes)

RECURSIVE Reverse(_)
Reverse(seq) == IF seq = <<>> THEN <<>> ELSE Append(Reverse(Tail(seq)), Head(seq))

\* value.to_bytes(nbytes, endian, signed=signed) for a value that fits
NumToBytes(value, nbytes, endian, signed) ==
    LET u == IF value < 0 THEN value + Pow(ByteWidth, nbytes) ELSE value
        le == ToBytes(u, nbytes)
    IN  IF endian = "little" THEN le ELSE Reverse(le)

\* Number.serialize(self, blob, *, data, endian, sign)
NumberSerialize(st, raw, buf) ==
    LET nbits == LenBits(buf)
        value == st.value
        nbytes == LenBytes(buf)
        signed == st.signed
        w == BufWrite(raw, buf, NumToBytes(value, nbytes, st.endian, signed))
    IN  IF nbits % 8 # 0
        THEN [raw |-> raw, buf |-> buf, res |-> "ImperialSerializationError"]
        ELSE IF ~signed /\ value < 0
        THEN [raw |-> raw, buf |-> buf, res |-> "ImperialSanityError"]
        ELSE IF ~Fits(value, nbytes, signed)
        THEN [raw |-> raw, buf |-> buf, res |-> "ImperialSanityError"]
        ELSE [raw |-> w.raw, buf |-> w.buf, res |-> "ok"]

\* resolver(self).run(blob) of Number.serialize: the cached result of the
\* last successful call is returned while the keys data, endian and sign
\* are unchanged.
RunNumber(st, raw, buf) ==
    LET r == NumberSerialize(st, raw, buf)
    IN  IF st.cached THEN [st |-> st, raw |-> raw, buf |-> buf, res |-> "ok"]
        ELSE [st |-> [st EXCEPT !.cached = (r.res = "ok")],
              raw |-> r.raw, buf |-> r.buf, res |-> r.res]

\* A stream of the given bit count, all zero.
NewStream(nbits) ==
    [raw |-> NewRaw(Zeros((nbits + 7) \div 8)),
     buf |-> [base |-> 0, end |-> nbits \div 8, cursor |-> 0, bits |-> nbits]]

NoNumberOp == [op |-> "none", res |-> "ok", nbits |-> 0]

NumberInit ==
    /\ node = <<>> /\ edge = <<>> /\ failing = {} /\ explicit = {}
    /\ kd = <<>> /\ ktype = "Adder" /\ hidden = FALSE
    /\ last = NoNumberOp
    /\ \E v \in NumValues :
          io = [value |-> v, signed |-> FALSE, endian |-> "little",
                cached |-> FALSE,
                raw |-> NewStream(8).raw, buf |-> NewStream(8).buf]

\* number.set(v)
NumberSet(v) ==
    /\ v # io.value
    /\ io' = [io EXCEPT !.value = v, !.cached = FALSE]
    /\ last' = [NoNumberOp EXCEPT !.op = "set"]

\* number.set("sign", ...), number.set("endian", ...)
NumberSetKeys(signed, endian) ==
    /\ <<signed, endian>> # <<io.signed, io.endian>>
    /\ io' = [io EXCEPT !.signed = signed, !.endian = endian, !.cached = FALSE]
    /\ last' = [NoNumberOp EXCEPT !.op = "keys"]

\* number.serialize(stream) with a new stream of nbits bits
NumberSerializeStream(nbits) ==
    LET s == NewStream(nbits)
        r == RunNumber(io, s.raw, s.buf)
    IN  /\ io' = [r.st EXCEPT !.raw = r.raw, !.buf = r.buf]
        /\ last' = [op |-> "nserialize", res |-> r.res, nbits |-> nbits]

NumberNext ==
    \/ \E v \in NumValues : NumberSet(v) /\ UNCHANGED <<nodeVars, keyVars>>
    \/ \E signed \in BOOLEAN, endian \in {"little", "big"} :
          NumberSetKeys(signed, endian) /\ UNCHANGED <<nodeVars, keyVars>>
    \/ \E nbits \in BitCounts :
          NumberSerializeStream(nbits) /\ UNCHANGED <<nodeVars, keyVars>>

SpecNumber == NumberInit /\ [][NumberNext]_vars

\* ------------------------------------------------------------------ C16
\* The stream is as it was handed to serialize: all zero, cursor at 0.
Untouched ==
    /\ io.raw.blob = Zeros(Len(io.raw.blob))
    /\ BufTell(io.buf) = 0

\* A serialize into whole bytes succeeds exactly when the value fits.
C16_SucceedsIffFits ==
    (last.op = "nserialize" /\ last.nbits % 8 = 0)
        => (last.res = "ok" <=> Fits(io.value, last.nbits \div 8, io.signed))

\* A serialize that fails raises a serialization error and writes nothing.
C16_FailureKind ==
    (last.op = "nserialize" /\ last.res # "ok")
        => last.res = "ImperialSerializationError" /\ Untouched

\* C16 as stated: a number is serialized into n whole bytes exactly when
\* it fits n bytes with its signedness; a value that does not fit and a
\* bit count that is not a multiple of 8 fail with a serialization error,
\* and the failed call writes nothing.
C16_SerializeFits ==
    /\ C16_SucceedsIffFits
    /\ C16_FailureKind
    /\ (last.op = "nserialize" /\ last.nbits % 8 # 0) => last.res # "ok"

\* ------------------------------------------------- BytesBuffer window
\* A bounded buffer over a backing stream, as in the window tests of
\* test_util.py.
WinBase == 1
WinSize == 2
WinBacking == <<1, 2, 3, 4, 5, 6>>
WriteInputs == {<<7>>, <<7, 8>>, <<7, 8, 9>>}

NoBufferOp ==
    [op |-> "none", ret |-> <<>>, at |-> 0, arg |-> <<>>, cursor |-> 0]

BufferInit ==
    /\ node = <<>> /\ edge = <<>> /\ failing = {} /\ explicit = {}
    /\ kd = <<>> /\ ktype = "Adder" /\ hidden = FALSE
    /\ last = NoBufferOp
    /\ io = [raw |-> NewRaw(WinBacking), buf |-> NewWindow(WinBase, WinSize)]

\* w.read(size)
BufferRead(size) ==
    LET r == BufRead(io.raw, io.buf, size)
    IN  /\ io' = [raw |-> r.raw, buf |-> r.buf]
        /\ last' = [op |-> "read", ret |-> r.ret, at |-> r.at, arg |-> <<size>>,
                    cursor |-> io.buf.cursor]

\* w.readall()
BufferReadAll ==
    LET r == BufReadAll(io.raw, io.buf)
    IN  /\ io' = [raw |-> r.raw, buf |-> r.buf]
        /\ last' = [op |-> "readall", ret |-> r.ret, at |-> r.at, arg |-> <<>>,
                    cursor |-> io.buf.cursor]

\* w.write(b)
BufferWrite(b) ==
    LET r == BufWrite(io.raw, io.buf, b)
    IN  /\ io' = [raw |-> r.raw, buf |-> r.buf]
        /\ last' = [op |-> "write", ret |-> r.put, at |-> r.at, arg |-> b,
                    cursor |-> io.buf.cursor]

\* w.seek(offset)
BufferSeek(offset) ==
    /\ io' = [io EXCEPT !.buf = BufSeek(io.buf, offset)]
    /\ last' = [NoBufferOp EXCEPT !.op = "seek", !.arg = <<offset>>,
                                  !.cursor = io.buf.cursor]

BufferNext ==
    \/ \E size \in 1..WinSize : BufferRead(size) /\ UNCHANGED <<nodeVars, keyVars>>
    \/ BufferReadAll /\ UNCHANGED <<nodeVars, keyVars>>
    \/ \E b \in WriteInputs : BufferWrite(b) /\ UNCHANGED <<nodeVars, keyVars>>
    \/ \E offset \in 0..(WinSize + 1) :
          BufferSeek(offset) /\ UNCHANGED <<nodeVars, keyVars>>

SpecBuffer == BufferInit /\ [][BufferNext]_vars

\* ------------------------------------------------------------------ C17
\* The positions of the backing stream that belong to the window.
InWindow(at, n) == WinBase <= at /\ at + n <= WinBase + WinSize

\* C17 as stated: every byte a call returns or writes lies in the window,
\* the backing stream is unchanged outside it, a write is cut at the
\* window's end, and the cursor stays within 0..size.
C17_WindowConfined ==
    /\ (last.op \in {"read", "readall", "write"} /\ last.ret # <<>>)
            => InWindow(last.at, Len(last.ret))
    /\ \A i \in 1..Len(WinBacking) :
            ~InWindow(i - 1, 1) => io.raw.blob[i] = WinBacking[i]
    /\ Len(io.raw.blob) = Len(WinBacking)
    /\ last.op = "write"
            => Len(last.ret) = Min(Len(last.arg), WinSize - last.cursor)
    /\ io.buf.cursor \in 0..WinSize

\* ------------------------------------------------------------------ C18
\* C18 as stated: a successful read of a key whose value is inherited
\* returns the value the benefactor's key holds at that read.
C18_InheritedFollowsBenefactor ==
    (/\ last.op = "kget" /\ last.res = "ok" /\ last.id = "C.data"
     /\ kd["C.data"].how = "inherited" /\ kd["P.data"].valid)
        => last.ret = kd["P.data"].value

\* ------------------------------------------------- check_constraints
\* The generator of Key.check_constraints: the results of the applicable
\* calculations from calculation i on, in order.
RECURSIVE RunRules(_, _, _, _)
RunRules(st, id, i, acc) ==
    LET rules == Calculations(id)
    IN  IF i > Len(rules) THEN [st |-> st, res |-> "ok", val |-> acc]
        ELSE IF ~HasKeys(st.nd, Owner(id), rules[i].refs)
        THEN RunRules(st, id, i + 1, acc)
        ELSE CHOOSE out \in
                 {IF r.res # "ok" THEN [st |-> r.st, res |-> r.res, val |-> a]
                  ELSE RunRules(r.st, id, i + 1,
                                Append(a, Apply(rules[i].fn, r.val))) :
                      r \in {ResolveRefs(st, Owner(id), rules[i].refs, {id}, <<>>)},
                      a \in {acc}} : TRUE

\* reduce(lambda x, y: x == y, it) from the first result x on; the python
\* booleans are the integers 1 and 0.
RECURSIVE Reduce(_, _)
Reduce(x, rest) ==
    IF rest = <<>> THEN x
    ELSE Reduce(IF x = Head(rest) THEN 1 ELSE 0, Tail(rest))

\* Key.check_constraints
CheckConstraints(st, id) ==
    CHOOSE out \in
        {IF r.res # "ok" THEN [st |-> r.st, res |-> r.res, val |-> r.val]
         ELSE IF r.val = <<>> THEN [st |-> r.st, res |-> "TypeError", val |-> r.val]
         ELSE IF Reduce(Head(r.val), Tail(r.val)) = 0
         THEN [st |-> r.st, res |-> "ImperialSanityError", val |-> r.val]
         ELSE [st |-> r.st, res |-> "ok", val |-> r.val] :
             r \in {RunRules(st, id, 1, <<>>)}} : TRUE

\* struct.check_constraints(name)
StructCheck(s, name) ==
    \E g \in {KeysGetItem(kd, s, name)} :
    \E r \in {IF g.res # "ok"
              THEN [st |-> [nd |-> g.nd, calls |-> {}], res |-> "ImperialKeyError",
                    val |-> <<>>]
              ELSE CheckConstraints([nd |-> g.nd, calls |-> {}], KeyId(s, name))} :
        /\ kd' = r.st.nd
        /\ last' = [op |-> "kcheck", id |-> KeyId(s, name), res |-> r.res,
                    ret |-> None, arg |-> NoKeyOp.arg, calls |-> r.st.calls,
                    rs |-> r.val]
        /\ UNCHANGED <<ktype, hidden>>

CheckNext ==
    \/ KeyNext
    \/ \E id \in KeyIds :
          StructCheck(Owner(id), Name(id)) /\ UNCHANGED <<nodeVars, io>>

CheckInit ==
    /\ node = <<>> /\ edge = <<>> /\ failing = {} /\ explicit = {} /\ io = <<>>
    /\ kd = [id \in KeyIds |-> [NewKey EXCEPT !.mat = FALSE]]
    /\ ktype \in {"Adder", "Multi"} /\ hidden = FALSE
    /\ last = NoKeyOp

SpecCheck == CheckInit /\ [][CheckNext]_vars

\* ------------------------------------------------------------------ C19
\* The results of the applicable rules of key id, computed from the
\* current values of their refs.
ResultsNow(nd, id) == {RuleNow(nd, id, i).val : i \in Applicable(nd, id)}

\* C19 as stated: a check of a key whose applicable rules can all be
\* evaluated succeeds when their results are all equal, whatever their
\* number and value, and raises a sanity error when two of them differ.
C19_CheckAgrees ==
    (/\ last.op = "kcheck"
     /\ last.res \in {"ok", "ImperialSanityError", "TypeError"}
     /\ \A i \in Applicable(kd, last.id) : RuleNow(kd, last.id, i).ok)
        => /\ Cardinality(ResultsNow(kd, last.id)) <= 1 <=> last.res = "ok"
           /\ Cardinality(ResultsNow(kd, last.id)) > 1
                  <=> last.res = "ImperialSanityError"

\* ------------------------------------------------- struct.key(name)
\* ImperialType.key(name): self.keys[name], a KeyError of the dict turned
\* into ImperialKeyError.
StructKey(s, name) ==
    LET g == KeysGetItem(kd, s, name)
    IN  /\ kd' = g.nd
        /\ last' = [op |-> "kkey",
                    id |-> IF Registered(s, name) THEN KeyId(s, name) ELSE NoKey,
                    res |-> IF g.res = "ok" THEN "ok" ELSE "ImperialKeyError",
                    ret |-> None, arg |-> NoKeyOp.arg, calls |-> {},
                    s |-> s, name |-> name]
        /\ UNCHANGED <<ktype, hidden>>

MatNext ==
    \/ KeyNext
    \/ \E s \in Structs, name \in KeyNames :
          StructKey(s, name) /\ UNCHANGED <<nodeVars, io>>

MatInit ==
    /\ node = <<>> /\ edge = <<>> /\ failing = {} /\ explicit = {} /\ io = <<>>
    /\ kd = [id \in KeyIds |-> [NewKey EXCEPT !.mat = FALSE]]
    /\ ktype \in {"Adder", "Multi"} /\ hidden = FALSE
    /\ last = NoKeyOp

SpecMat == MatInit /\ [][MatNext]_vars

\* ------------------------------------------------------------------ C20
\* C20 as stated: asking the key map for a registered name that has no
\* Key yet stores a new Key under it and changes nothing else; asking
\* again returns the stored Key and changes nothing; asking for a name
\* that is not registered fails with a key error and changes nothing.
C20_MaterializeOnDemand ==
    [][ last'.op = "kkey"
            => IF Registered(last'.s, last'.name)
               THEN /\ last'.res = "ok"
                    /\ kd'[last'.id].mat
                    /\ \A id \in KeyIds \ {last'.id} : kd'[id] = kd[id]
                    /\ kd[last'.id].mat => kd' = kd
               ELSE last'.res = "ImperialKeyError" /\ kd' = kd
      ]_vars

\* ------------------------------------------------- Dynamic.key_type
\* The types a manager can have, the key names asked for, and a struct
\* without a manager.
Contexts == {"M1", "M2"}
TypeNames == {"j", "k"}
NoManager == "none"

\* The key classes the three registries hold for a name.
OverrideKey == "override"
LocatorKey == "locator"
OwnKey == "own"

\* Dynamic.key_type(name).  keys, ov and loc are the class attributes
\* _keys, _overrides and the manager type's locators; each is None until
\* its first registration, and `in None` raises TypeError.
KeyType(st, name) ==
    IF st.manager # NoManager /\ ~st.ovInit THEN "TypeError"
    ELSE IF st.manager # NoManager /\ st.manager \in DOMAIN st.ov
              /\ name \in st.ov[st.manager]
    THEN OverrideKey
    ELSE IF st.manager # NoManager /\ st.manager \notin DOMAIN st.ov
              /\ st.manager \notin DOMAIN st.loc
    THEN "TypeError"
    ELSE IF st.manager # NoManager /\ st.manager \notin DOMAIN st.ov
              /\ name \in st.loc[st.manager]
    THEN LocatorKey
    ELSE IF ~st.keysInit THEN "TypeError"
    ELSE IF name \in st.keys THEN OwnKey
    ELSE "ImperialKeyError"

NoTypeOp == [op |-> "none", name |-> "", res |-> "ok"]

TypeInit ==
    /\ node = <<>> /\ edge = <<>> /\ failing = {} /\ explicit = {}
    /\ kd = <<>> /\ ktype = "Adder" /\ hidden = FALSE
    /\ last = NoTypeOp
    /\ io = [manager |-> NoManager, keysInit |-> FALSE, keys |-> {},
             ovInit |-> FALSE, ov |-> <<>>, loc |-> <<>>]

\* cls.register(key)
TypeRegister(name) ==
    /\ io' = [io EXCEPT !.keysInit = TRUE, !.keys = @ \cup {name}]
    /\ last' = [op |-> "register", name |-> name, res |-> "ok"]

\* manager_type.register_locator(key)
TypeRegisterLocator(c, name) ==
    /\ io' = [io EXCEPT !.loc =
                 [d \in DOMAIN io.loc \cup {c} |->
                     IF d = c
                     THEN (IF c \in DOMAIN io.loc THEN io.loc[c] ELSE {}) \cup {name}
                     ELSE io.loc[d]]]
    /\ last' = [op |-> "register_locator", name |-> name, res |-> "ok"]

\* cls.register_override(context)(key)
TypeRegisterOverride(c, name) ==
    /\ io' = [io EXCEPT !.ovInit = TRUE,
                        !.ov = [d \in DOMAIN io.ov \cup {c} |->
                                   IF d = c
                                   THEN (IF c \in DOMAIN io.ov THEN io.ov[c] ELSE {})
                                            \cup {name}
                                   ELSE io.ov[d]]]
    /\ last' = [op |-> "register_override", name |-> name, res |-> "ok"]

\* A struct of the type made with manager=m (m of type m), or with none.
TypeSetManager(m) ==
    /\ io' = [io EXCEPT !.manager = m]
    /\ last' = [op |-> "manager", name |-> "", res |-> "ok"]

\* struct.key_type(name)
TypeKeyType(name) ==
    /\ io' = io
    /\ last' = [op |-> "key_type", name |-> name, res |-> KeyType(io, name)]

TypeNext ==
    \/ \E name \in TypeNames :
          TypeRegister(name) /\ UNCHANGED <<nodeVars, keyVars>>
    \/ \E c \in Contexts, name \in TypeNames :
          TypeRegisterLocator(c, name) /\ UNCHANGED <<nodeVars, keyVars>>
    \/ \E c \in Contexts, name \in TypeNames :
          TypeRegisterOverride(c, name) /\ UNCHANGED <<nodeVars, keyVars>>
    \/ \E m \in Contexts \cup {NoManager} :
          TypeSetManager(m) /\ UNCHANGED <<nodeVars, keyVars>>
    \/ \E name \in TypeNames :
          TypeKeyType(name) /\ UNCHANGED <<nodeVars, keyVars>>

SpecType == TypeInit /\ [][TypeNext]_vars

\* ------------------------------------------------------------------ C21
\* The three sources of a key type, by name.
HasOverride(st, name) ==
    /\ st.manager # NoManager
    /\ st.manager \in DOMAIN st.ov
    /\ name \in st.ov[st.manager]

HasLocator(st, name) ==
    /\ st.manager # NoManager
    /\ st.manager \in DOMAIN st.loc
    /\ name \in st.loc[st.manager]

\* C21 as stated: key_type(name) returns the override registered for the
\* type of the struct's manager and the name; otherwise the locator of
\* that name declared by the manager's type; otherwise the struct's own
\* registered key type; and a key error only when none of the three has
\* the name.  (A call that fails on a registry that was never created is
\* left aside.)
C21_Precedence ==
    (last.op = "key_type" /\ last.res # "TypeError")
        => last.res = IF HasOverride(io, last.name) THEN OverrideKey
                      ELSE IF HasLocator(io, last.name) THEN LocatorKey
                      ELSE IF last.name \in io.keys THEN OwnKey
                      ELSE "ImperialKeyError"

\* ------------------------------------------------- struct.has_keys(names)
\* The lists of names has_keys is asked about (the refs of calculations).
HasInputs == {<<"data">>, <<"a", "b">>, <<"a", "data">>, <<"data", "b">>}

\* find_inherited looking a name up in a benefactor's key map without
\* asking first whether the map has it.
InheritedLookupUnguarded(nd, b, name) == KeysGetItem(nd, b, name)

\* if n in benefactor.keys: key = benefactor.keys[n]
InheritedLookup(nd, b, name) ==
    IF Contains(nd, b, name) THEN KeysGetItem(nd, b, name)
    ELSE [nd |-> nd, res |-> "absent"]

\* Dynamic.find_inherited, call by call, with the key maps it leaves.
RECURSIVE FindInheritedWalk(_, _, _)
FindInheritedWalk(nd, chain, name) ==
    IF chain = <<>> THEN [nd |-> nd, res |-> "none"]
    ELSE CHOOSE out \in
        {IF g.res \in {"KeyError", "ImperialKeyError"}
         THEN [nd |-> g.nd, res |-> g.res]
         ELSE IF /\ g.res = "ok"
                 /\ ~Hidden(KeyId(Head(chain), name))
                 /\ ~g.nd[KeyId(Head(chain), name)].defaulted
         THEN [nd |-> g.nd, res |-> "found"]
         ELSE FindInheritedWalk(g.nd, Tail(chain), name) :
             g \in {InheritedLookup(nd, Head(chain), name)}} : TRUE

\* DynamicKeyMap.__contains__
ContainsWalk(nd, s, name) ==
    IF IsReady(nd, s, name) THEN [nd |-> nd, res |-> "True"]
    ELSE CHOOSE out \in
        {[nd |-> w.nd,
          res |-> IF w.res = "found" THEN "True"
                  ELSE IF w.res = "none" THEN "False" ELSE w.res] :
             w \in {FindInheritedWalk(nd, Benefactors(s), name)}} : TRUE

\* ImperialType.has_keys: the first name that is not in the key map ends
\* the loop.
RECURSIVE HasKeysWalk(_, _, _)
HasKeysWalk(nd, s, refs) ==
    IF refs = <<>> THEN [nd |-> nd, res |-> "True"]
    ELSE CHOOSE out \in
        {IF c.res = "True" THEN HasKeysWalk(c.nd, s, Tail(refs)) ELSE c :
             c \in {ContainsWalk(nd, s, Head(refs))}} : TRUE

\* struct.has_keys(refs)
StructHasKeys(s, refs) ==
    \E r \in {HasKeysWalk(kd, s, refs)} :
        /\ kd' = r.nd
        /\ last' = [op |-> "has_keys", id |-> NoKey, res |-> r.res,
                    ret |-> None, arg |-> NoKeyOp.arg, calls |-> {},
                    s |-> s, names |-> refs]
        /\ UNCHANGED <<ktype, hidden>>

HasNext ==
    \/ KeyNext
    \/ \E s \in Structs, refs \in HasInputs :
          StructHasKeys(s, refs) /\ UNCHANGED <<nodeVars, io>>

SpecHas == KeyInit /\ [][HasNext]_vars

\* ------------------------------------------------------------------ C22
\* C22: has_keys answers whether every name is in the struct's key map,
\* its own keys or the keys its benefactor offers, and a call leaves the
\* key map of the struct and of its benefactor as they were: no Key
\* object is created.
C22_HasKeysCreatesNothing ==
    [][ last'.op = "has_keys"
            => /\ kd' = kd
               /\ last'.res = IF HasKeys(kd, last'.s, last'.names)
                              THEN "True" ELSE "False"
      ]_vars

\* has_keys on the child answered yes for a name the child has no Key
\* for: the benefactor offers it.
C22_Witness ==
    /\ last.op = "has_keys" /\ last.s = "C" /\ last.res = "True"
    /\ last.names = <<"data">>
    /\ ~kd["C.data"].mat /\ kd["P.data"].mat

\* ------------------------------------------------- clone and deep copy
\* Structs of a Value type with a basic value and the key min
\* (a BaseNumber).  The objects are kept in heaps so that two attributes
\* naming the same object can be told from two equal objects:
\*   structs[s]  the attributes of struct s: its donor, the list object its
\*               clones attribute names, the dict its caches attribute names
\*   lists[l]    a list object: the structs appended to it
\*   maps[s]     the key map of struct s: its _owner and the Key it holds
\*               under each name (0 for none)
\*   kobj[k]     a Key object: its container and the value set to it
\*   caches[c]   a caches dict: the value and validity of its basic node
MaxStructs == 3
CloneNames == {"min"}
NoStruct == 0

\* A nameless deep copy of struct s, made because a copied Key's container
\* was a struct other than the one being copied.
CopyOfStruct(s) == 0 - s

\* KeyMap.__deepcopy__ and the default deep copy of each Key: the Key's
\* container is the new struct when it was the copied struct (the memo),
\* and a deep copy of its own otherwise.
RECURSIVE CopyKeys(_, _, _, _)
CopyKeys(st, s, n, names) ==
    IF names = {} THEN st
    ELSE CHOOSE out \in
        {IF k = 0 THEN CopyKeys(st, s, n, names \ {name})
         ELSE CopyKeys(
                 [st EXCEPT !.kobj = Append(@,
                                [container |-> IF st.kobj[k].container = s THEN n
                                               ELSE IF st.kobj[k].container < 0
                                               THEN st.kobj[k].container
                                               ELSE CopyOfStruct(st.kobj[k].container),
                                 value |-> st.kobj[k].value]),
                            !.maps[n].held[name] = Len(st.kobj) + 1],
                 s, n, names \ {name}) :
             name \in {CHOOSE x \in names : TRUE},
             k \in {st.maps[s].held[CHOOSE x \in names : TRUE]}} : TRUE

\* The owner the copy's key map is given: v._owner = self.
CopyOwner(s, n) == s

\* ImperialType.__deepcopy__: the attributes of nocopy (donor, clones,
\* caches, ...) name the same objects as in the original, the key map is
\* copied.
DeepCopy(st, s) ==
    CopyKeys([st EXCEPT !.structs = Append(@, st.structs[s]),
                        !.maps = Append(@, [owner |-> CopyOwner(s, Len(st.structs) + 1),
                                            held |-> [x \in CloneNames |-> 0]])],
             s, Len(st.structs) + 1, CloneNames)

\* The clone keeping the list object its donor's clones attribute names.
KeepClonesList(st, n) == st

\* new.clones = []
NewClonesList(st, n) ==
    [st EXCEPT !.lists = Append(@, <<>>), !.structs[n].clones = Len(st.lists) + 1]

\* ImperialType.clone: new = self(donor=self); new.clones = [];
\* self.clones.append(new)
Clone(st, s) ==
    CHOOSE out \in
        {[r EXCEPT !.lists[r.structs[s].clones] = Append(@, Len(st.structs) + 1)] :
            r \in {NewClonesList(
                      [c EXCEPT !.structs[Len(st.structs) + 1].donor = s],
                      Len(st.structs) + 1) :
                        c \in {DeepCopy(st, s)}}} : TRUE

\* DynamicKeyMap.__getitem__ on the key map of struct s: a name without a
\* Key gets one from the map's owner (self._owner._make_key), whose
\* container is that owner.
CloneKey(st, s, name) ==
    IF st.maps[s].held[name] # 0 THEN st
    ELSE [st EXCEPT !.kobj = Append(@, [container |-> st.maps[s].owner,
                                        value |-> None]),
                    !.maps[s].held[name] = Len(st.kobj) + 1]

NoCloneOp == [op |-> "none", id |-> NoStruct, name |-> "", res |-> "ok", ret |-> None]

\* One struct made with a basic value: Number(0).
CloneInit ==
    /\ node = <<>> /\ edge = <<>> /\ failing = {} /\ explicit = {}
    /\ kd = <<>> /\ ktype = "Adder" /\ hidden = FALSE
    /\ last = NoCloneOp
    /\ io = [structs |-> << [donor |-> NoStruct, clones |-> 1, caches |-> 1] >>,
             lists |-> << <<>> >>,
             maps |-> << [owner |-> 1, held |-> [x \in CloneNames |-> 0]] >>,
             kobj |-> <<>>,
             caches |-> << [value |-> 0, valid |-> TRUE] >>]

\* struct.clone()
StructClone(s) ==
    /\ Len(io.structs) < MaxStructs
    /\ io' = Clone(io, s)
    /\ last' = [NoCloneOp EXCEPT !.op = "clone", !.id = s]

\* struct() : ImperialType.__call__ without arguments, a deep copy
StructCopy(s) ==
    /\ Len(io.structs) < MaxStructs
    /\ io' = DeepCopy(io, s)
    /\ last' = [NoCloneOp EXCEPT !.op = "copy", !.id = s]

\* struct.set(name, v): Dynamic.set_by_key, Key.set
CloneSetKey(s, name, v) ==
    \E r \in {CloneKey(io, s, name)} :
        /\ io' = [r EXCEPT !.kobj[r.maps[s].held[name]].value = v]
        /\ last' = [NoCloneOp EXCEPT !.op = "set_key", !.id = s, !.name = name]

\* struct.get(name): a key without a value has no default
CloneGetKey(s, name) ==
    \E r \in {CloneKey(io, s, name)} :
        /\ io' = r
        /\ last' = [NoCloneOp EXCEPT
                       !.op = "get_key", !.id = s, !.name = name,
                       !.res = IF r.kobj[r.maps[s].held[name]].value = None
                               THEN "ImperialKeyError" ELSE "ok",
                       !.ret = r.kobj[r.maps[s].held[name]].value]

\* struct.set(v): Value.set_basic, self.caches["basic"].value = v
CloneSetBasic(s, v) ==
    /\ io' = [io EXCEPT !.caches[io.structs[s].caches] =
                            [value |-> v, valid |-> TRUE]]
    /\ last' = [NoCloneOp EXCEPT !.op = "set_basic", !.id = s]

\* struct.get(): Value.get_basic, self.caches["basic"].value
CloneGetBasic(s) ==
    /\ io' = io
    /\ last' = [NoCloneOp EXCEPT !.op = "get_basic", !.id = s,
                                 !.ret = io.caches[io.structs[s].caches].value]

CloneNext ==
    \/ \E s \in 1..Len(io.structs) :
          StructClone(s) /\ UNCHANGED <<nodeVars, keyVars>>
    \/ \E s \in 1..Len(io.structs), name \in CloneNames, v \in Values :
          CloneSetKey(s, name, v) /\ UNCHANGED <<nodeVars, keyVars>>
    \/ \E s \in 1..Len(io.structs), name \in CloneNames :
          CloneGetKey(s, name) /\ UNCHANGED <<nodeVars, keyVars>>
    \/ \E s \in 1..Len(io.structs), v \in Values :
          CloneSetBasic(s, v) /\ UNCHANGED <<nodeVars, keyVars>>
    \/ \E s \in 1..Len(io.structs) :
          CloneGetBasic(s) /\ UNCHANGED <<nodeVars, keyVars>>

SpecClone == CloneInit /\ [][CloneNext]_vars

CopyNext ==
    \/ CloneNext
    \/ \E s \in 1..Len(io.structs) :
          StructCopy(s) /\ UNCHANGED <<nodeVars, keyVars>>

SpecCopy == CloneInit /\ [][CopyNext]_vars

\* ------------------------------------------------------------------ C23
\* What a caller reads from struct s: its basic value and the value of
\* each key (None for a key without a value).
ReadsFrom(st, s) ==
    [basic |-> st.caches[st.structs[s].caches].value,
     keys |-> [x \in CloneNames |->
                  IF st.maps[s].held[x] = 0 THEN None
                  ELSE st.kobj[st.maps[s].held[x]].value]]

\* C23 as stated: setting a key or the basic value of a struct changes no
\* value read from any other struct, in particular none read from its
\* donor or from its clones.
C23_CloneIndependent ==
    [][ last'.op \in {"set_key", "set_basic"}
            => \A s \in 1..Len(io.structs) :
                  s # last'.id => ReadsFrom(io', s) = ReadsFrom(io, s)
      ]_vars

\* ------------------------------------------------------------------ C24
\* Struct c is an element of the list object named by s.clones.
InClones(st, s, c) ==
    \E i \in 1..Len(st.lists[st.structs[s].clones]) :
        st.lists[st.structs[s].clones][i] = c

\* C24: after any sequence of clone() calls a struct is in the clones
\* list of s exactly when its donor is s; a new clone has an empty clones
\* list of its own; and clone() changes nothing of the donor, of its keys
\* or of any other struct, apart from appending the clone to the donor's
\* clones list.
C24_ClonesMatchDonor ==
    [][ /\ \A s, c \in 1..Len(io'.structs) :
              InClones(io', s, c) <=> io'.structs[c].donor = s
        /\ last'.op = "clone" /\ Len(io'.structs) = Len(io.structs) + 1 =>
              /\ io'.lists[io'.structs[Len(io'.structs)].clones] = <<>>
              /\ \A s \in 1..Len(io.structs) :
                    io'.structs[Len(io'.structs)].clones # io'.structs[s].clones
              /\ \A s \in 1..Len(io.structs) :
                    /\ io'.structs[s] = io.structs[s]
                    /\ io'.maps[s] = io.maps[s]
              /\ \A k \in 1..Len(io.kobj) : io'.kobj[k] = io.kobj[k]
              /\ io'.caches = io.caches
              /\ \A l \in 1..Len(io.lists) :
                    io'.lists[l] = IF l = io.structs[last'.id].clones
                                   THEN Append(io.lists[l], Len(io'.structs))
                                   ELSE io.lists[l]
      ]_vars

\* A clone of a clone has been made.
C24_Witness ==
    /\ last.op = "clone" /\ last.id = 2
    /\ Len(io.structs) = 3
    /\ io.structs[2].donor = 1 /\ io.structs[3].donor = 2
    /\ io.lists[io.structs[1].clones] = <<2>>
    /\ io.lists[io.structs[2].clones] = <<3>>

\* ------------------------------------------------------------------ C25
\* C25 as stated: the key map of every struct, a deep copy included, is
\* owned by that struct, and every Key it holds (copied with the map or
\* made on demand later) has that struct as its container; a deep copy
\* names the same donor, clones list and caches as its original.
C25_CopyOwnsKeys ==
    /\ \A s \in 1..Len(io.structs) :
          /\ io.maps[s].owner = s
          /\ \A x \in CloneNames :
                io.maps[s].held[x] # 0 => io.kobj[io.maps[s].held[x]].container = s
    /\ last.op = "copy" =>
          io.structs[Len(io.structs)] = io.structs[last.id]

\* ------------------------------------------------------------ LinkMap
\* A chain of link maps: map 1 is the root and map m > 1 has map m - 1 as
\* parent.  Names are strings, kept as sequences of characters; targets
\* are the nodes that get bound, dependents the nodes that refer to names.
NumMaps == 2
MaxLinkOps == 5
NumTargets == 3
NumDeps == 2
Maps == 1..NumMaps
Targets == 1..NumTargets
Deps == 1..NumDeps
LinkNames == { <<"a", "/", "b">>, <<"a", "/", "n">>, <<"c", "/", "b">> }
\* The names dependents refer to.
RefNames == { <<"a", "/", "b">>, <<"a", "/", "n">> }
\* The names a target node is registered under: the first targets are
\* nodes of struct a, one replacing the other, the last is the basic node
\* of struct c.
NamesOf(n) ==
    IF n = NumTargets THEN { <<"c", "/", "b">> }
    ELSE IF n = 1 THEN { <<"a", "/", "b">> }
    ELSE { <<"a", "/", "b">>, <<"a", "/", "n">> }
Unbound == 0

\* name.rsplit("/", 1)[0]: what stands before the last slash, or the whole
\* name when it has none.
RSplitHead(name) ==
    IF \E i \in 1..Len(name) : name[i] = "/"
    THEN SubSeq(name, 1, (CHOOSE i \in 1..Len(name) :
                             /\ name[i] = "/"
                             /\ \A j \in (i + 1)..Len(name) : name[j] # "/") - 1)
    ELSE name

\* key.startswith(prefix)
StartsWith(key, prefix) ==
    /\ Len(prefix) <= Len(key)
    /\ SubSeq(key, 1, Len(prefix)) = prefix

NoEntry == [has |-> FALSE, deps |-> {}]

\* An unregister that removes the bindings and stages nothing.
DelItemDropped(st, m, name) ==
    [st EXCEPT
        !.bound[m] = [key \in LinkNames |->
            IF StartsWith(key, RSplitHead(name)) THEN Unbound
            ELSE st.bound[m][key]]]

\* LinkMap.__delitem__: every binding whose name starts with the head of
\* the name is removed, and the dependents of its node are added to the
\* staging entry of its own name.
DelItem(st, m, name) ==
    [st EXCEPT
        !.staged[m] = [key \in LinkNames |->
            IF st.bound[m][key] # Unbound /\ StartsWith(key, RSplitHead(name))
            THEN [has |-> TRUE,
                  deps |-> st.staged[m][key].deps \cup st.refsIn[st.bound[m][key]]]
            ELSE st.staged[m][key]],
        !.bound[m] = [key \in LinkNames |->
            IF StartsWith(key, RSplitHead(name)) THEN Unbound
            ELSE st.bound[m][key]]]

\* A registration that binds the name and leaves the staging entry alone.
LinkStagedSkipped(st, m, name, n) == st

\* if name in self.staged: node.references_in.update(self.staged[name]);
\* del self.staged[name]
LinkStaged(st, m, name, n) ==
    IF st.staged[m][name].has
    THEN [st EXCEPT !.refsIn[n] = @ \cup st.staged[m][name].deps,
                    !.staged[m][name] = NoEntry]
    ELSE st

\* LinkMap.__setitem__
SetItem(st, m, name, n) ==
    CHOOSE out \in
        {LinkStaged([d EXCEPT !.bound[m][name] = n], m, name, n) :
            d \in {IF st.bound[m][name] # Unbound THEN DelItem(st, m, name)
                   ELSE st}} : TRUE

\* `name in self.nodes`: the name is registered in this map.
InNodes(st, m, name) == st.bound[m][name] # Unbound

\* An add_reference that stages the dependent whether or not the target
\* is bound.
AddReferenceStaged(st, m, d, target) ==
    [st EXCEPT !.staged[m][target] =
        [has |-> TRUE, deps |-> st.staged[m][target].deps \cup {d}]]

\* An add_reference that never asks the parent map.
AddReferenceLocal(st, m, d, target) ==
    IF InNodes(st, m, target)
    THEN [st EXCEPT !.refsIn[st.bound[m][target]] = @ \cup {d}]
    ELSE [st EXCEPT !.staged[m][target] =
             [has |-> TRUE, deps |-> st.staged[m][target].deps \cup {d}]]

\* LinkMap.add_reference
RECURSIVE AddReference(_, _, _, _)
AddReference(st, m, d, target) ==
    IF InNodes(st, m, target)
    THEN [st EXCEPT !.refsIn[st.bound[m][target]] = @ \cup {d}]
    ELSE CHOOSE out \in
        {IF m > 1 THEN AddReference(s, m - 1, d, target) ELSE s :
            s \in {[st EXCEPT !.staged[m][target] =
                       [has |-> TRUE, deps |-> st.staged[m][target].deps \cup {d}]]}}
        : TRUE

\* LinkMap.remove_references for one name; WeakSet.remove raises KeyError
\* for an element that is not in the set, and what was removed before
\* stays removed.
RECURSIVE RemoveReferences(_, _, _, _)
RemoveReferences(st, m, d, target) ==
    IF InNodes(st, m, target) /\ d \notin st.refsIn[st.bound[m][target]]
    THEN [st |-> st, res |-> "KeyError"]
    ELSE CHOOSE out \in
        {IF s.staged[m][target].has /\ d \notin s.staged[m][target].deps
         THEN [st |-> s, res |-> "KeyError"]
         ELSE CHOOSE o \in
                  {IF m > 1 THEN RemoveReferences(u, m - 1, d, target)
                   ELSE [st |-> u, res |-> "ok"] :
                      u \in {IF s.staged[m][target].has
                             THEN [s EXCEPT !.staged[m][target].deps = @ \ {d}]
                             ELSE s}} : TRUE :
            s \in {IF InNodes(st, m, target)
                   THEN [st EXCEPT !.refsIn[st.bound[m][target]] = @ \ {d}]
                   ELSE st}} : TRUE

\* The maps add_reference on map m goes through for a target: the map
\* and, while the target is not bound, its ancestors.
RECURSIVE Applied(_, _, _)
Applied(st, m, target) ==
    IF InNodes(st, m, target) \/ m = 1 THEN {m}
    ELSE {m} \cup Applied(st, m - 1, target)

NoLinkOp == [op |-> "none", m |-> 0, name |-> <<>>, n |-> 0, d |-> 0, res |-> "ok",
             reached |-> {}]
NoTrack == [m |-> 0, d |-> 0, name |-> <<>>, maps |-> {}]

LinkMapInit ==
    /\ node = <<>> /\ edge = <<>> /\ failing = {} /\ explicit = {}
    /\ kd = <<>> /\ ktype = "Adder" /\ hidden = FALSE
    /\ last = NoLinkOp
    /\ io = [bound |-> [m \in Maps |-> [key \in LinkNames |-> Unbound]],
             staged |-> [m \in Maps |-> [key \in LinkNames |-> NoEntry]],
             refsIn |-> [n \in Targets |-> {}],
             track |-> NoTrack, ops |-> 0]

\* linkmap[name] = node
LinkRegister(m, name, n) ==
    /\ io.ops < MaxLinkOps
    /\ io' = [SetItem(io, m, name, n) EXCEPT !.ops = @ + 1]
    /\ last' = [NoLinkOp EXCEPT !.op = "register", !.m = m, !.name = name, !.n = n]

\* del linkmap[name]
LinkUnregister(m, name) ==
    /\ io.ops < MaxLinkOps
    /\ io' = [DelItem(io, m, name) EXCEPT !.ops = @ + 1]
    /\ last' = [NoLinkOp EXCEPT !.op = "unregister", !.m = m, !.name = name]

\* linkmap.add_reference(dependent, target).  track is history: one of
\* the requests made and not taken back, with the maps it went through.
LinkAddReference(m, d, target) ==
    \E r \in {AddReference(io, m, d, target)} :
        /\ io.ops < MaxLinkOps
        /\ \E t \in {io.track}
                 \cup {[m |-> m, d |-> d, name |-> target,
                        maps |-> Applied(io, m, target)] : x \in {0}} :
              /\ t = io.track \/ io.track = NoTrack
              /\ io' = [r EXCEPT !.track = t, !.ops = @ + 1]
        /\ last' = [NoLinkOp EXCEPT !.op = "add", !.m = m, !.name = target, !.d = d]

\* linkmap.remove_references(dependent, [target])
\* A request on record for the dependent is off the record from here on.
LinkRemoveReferences(m, d, target) ==
    \E r \in {RemoveReferences(io, m, d, target)} :
        /\ io.ops < MaxLinkOps
        /\ io' = [r.st EXCEPT !.track =
                     IF io.track.d = d THEN NoTrack ELSE io.track,
                             !.ops = @ + 1]
        /\ last' = [NoLinkOp EXCEPT !.op = "remove", !.m = m, !.name = target,
                                    !.d = d, !.res = r.res]

\* linkmap[name].invalidate() on a node that is not rigid: invalidate is
\* called on each of its references_in (reached).
LinkInvalidate(m, name) ==
    /\ io.bound[m][name] # Unbound
    /\ io.ops < MaxLinkOps
    /\ io' = [io EXCEPT !.ops = @ + 1]
    /\ last' = [NoLinkOp EXCEPT !.op = "invalidate", !.m = m, !.name = name,
                                !.n = io.bound[m][name],
                                !.reached = io.refsIn[io.bound[m][name]]]

LinkMapNext ==
    \/ \E m \in Maps, n \in Targets :
          \E name \in NamesOf(n) :
              LinkRegister(m, name, n) /\ UNCHANGED <<nodeVars, keyVars>>
    \/ \E m \in Maps, name \in LinkNames :
          LinkUnregister(m, name) /\ UNCHANGED <<nodeVars, keyVars>>
    \/ \E m \in Maps, d \in Deps, name \in RefNames :
          LinkAddReference(m, d, name) /\ UNCHANGED <<nodeVars, keyVars>>
    \/ \E m \in Maps, d \in Deps, name \in RefNames :
          LinkRemoveReferences(m, d, name) /\ UNCHANGED <<nodeVars, keyVars>>
    \/ \E m \in Maps, name \in LinkNames :
          LinkInvalidate(m, name) /\ UNCHANGED <<nodeVars, keyVars>>

SpecLinkMap == LinkMapInit /\ [][LinkMapNext]_vars

\* ------------------------------------------------------------------ C26
\* C26: registering a node under a name in a link map binds the name to
\* the node, attaches to the node every dependent that was staged under
\* the name in that map, takes no dependent away from the node, and
\* leaves no staging entry for the name in that map.
C26_RegisterMigratesStaged ==
    [][ last'.op = "register"
            => /\ io'.bound[last'.m][last'.name] = last'.n
               /\ io.staged[last'.m][last'.name].deps \subseteq io'.refsIn[last'.n]
               /\ io.refsIn[last'.n] \subseteq io'.refsIn[last'.n]
               /\ ~io'.staged[last'.m][last'.name].has
      ]_vars

\* A dependent asked for a name nothing was bound to, and the node then
\* registered under the name in that map has it.
C26_Witness ==
    /\ last.op = "register" /\ io.ops = 2
    /\ io.track.m = last.m /\ io.track.name = last.name
    /\ io.track.d \in io.refsIn[last.n]

\* ------------------------------------------------------------------ C27
\* The names bound in map m that start with the head of a name.
Removable(st, m, name) ==
    {key \in LinkNames :
        st.bound[m][key] # Unbound /\ StartsWith(key, RSplitHead(name))}

\* C27: unregistering a name removes exactly the bindings whose name
\* starts with the head of that name; every dependent of a removed node
\* is afterwards staged under the node's name, no staged dependent is
\* dropped and no node loses a dependent; and registering a node under a
\* name whose binding was removed by the step before gives the new node
\* every dependent of the old one.
C27_UnregisterRestages ==
    [][ /\ last'.op = "unregister" =>
              /\ \A key \in LinkNames :
                    io'.bound[last'.m][key] =
                        IF key \in Removable(io, last'.m, last'.name)
                        THEN Unbound ELSE io.bound[last'.m][key]
              /\ \A key \in Removable(io, last'.m, last'.name) :
                    /\ io'.staged[last'.m][key].has
                    /\ io.refsIn[io.bound[last'.m][key]]
                           \subseteq io'.staged[last'.m][key].deps
              /\ \A m \in Maps, key \in LinkNames :
                    io.staged[m][key].deps \subseteq io'.staged[m][key].deps
              /\ \A m \in Maps \ {last'.m} : io'.bound[m] = io.bound[m]
              /\ io'.refsIn = io.refsIn
        /\ (/\ last.op = "unregister" /\ last'.op = "register"
            /\ last'.m = last.m /\ last'.name = last.name
            /\ io'.ops = io.ops + 1) =>
              \A d \in Deps :
                  (io.staged[last.m][last.name].has
                     /\ d \in io.staged[last.m][last.name].deps)
                      => d \in io'.refsIn[last'.n]
      ]_vars

\* A node with a dependent was unregistered, and so was its sibling.
C27_Witness ==
    /\ last.op = "unregister"
    /\ \E d \in Deps : d \in io.staged[last.m][last.name].deps
    /\ \E key \in LinkNames \ {last.name} :
          io.staged[last.m][key].has /\ io.bound[last.m][key] = Unbound
    /\ \E key \in LinkNames : io.bound[last.m][key] # Unbound

\* A new node registered right after the unregister has the dependent of
\* the old one.
C27_WitnessRebound ==
    /\ last.op = "register" /\ io.ops = 4
    /\ \E d \in Deps : d \in io.refsIn[1] /\ d \in io.refsIn[2]
    /\ io.bound[last.m][last.name] = 2

\* ------------------------------------------------------------------ C28
\* The request on record holds in every map it went through: the
\* dependent is attached to the node bound to the target there, or is
\* staged under the target there.
TrackHeld ==
    io.track # NoTrack =>
        \A m \in io.track.maps :
            IF InNodes(io, m, io.track.name)
            THEN io.track.d \in io.refsIn[io.bound[m][io.track.name]]
            ELSE /\ io.staged[m][io.track.name].has
                 /\ io.track.d \in io.staged[m][io.track.name].deps

\* An invalidation of the node bound to the target of the request on
\* record, in a map the request went through, reaches the dependent.
TrackReached ==
    (/\ last.op = "invalidate" /\ io.track # NoTrack
     /\ last.name = io.track.name /\ last.m \in io.track.maps)
        => io.track.d \in last.reached

\* C28: add_reference(dependent, target) on a map where the target is
\* bound attaches the dependent to the bound node and stages nothing;
\* otherwise the dependent is staged under the target in the map and the
\* same request is applied to the parent, and so on up the chain of
\* ancestors.  No binding changes and no node loses a dependent.  Until
\* the request is taken back, in every map it went through the dependent
\* stays attached to the node bound to the target or staged under the
\* target, and an invalidation of the node bound to the target there
\* reaches the dependent.
C28_AddReference ==
    [][ /\ last'.op = "add" =>
              /\ InNodes(io, last'.m, last'.name) =>
                    /\ last'.d \in io'.refsIn[io.bound[last'.m][last'.name]]
                    /\ io'.staged = io.staged
              /\ \A m \in Applied(io, last'.m, last'.name) :
                    IF InNodes(io, m, last'.name)
                    THEN /\ last'.d \in io'.refsIn[io.bound[m][last'.name]]
                         /\ io'.staged[m] = io.staged[m]
                    ELSE /\ io'.staged[m][last'.name].has
                         /\ last'.d \in io'.staged[m][last'.name].deps
              /\ \A m \in Maps \ Applied(io, last'.m, last'.name) :
                    io'.staged[m] = io.staged[m]
              /\ ~InNodes(io, last'.m, last'.name) =>
                    \A m \in 1..last'.m :
                        (\A k \in m..last'.m : ~InNodes(io, k, last'.name))
                            => last'.d \in io'.staged[m][last'.name].deps
              /\ io'.bound = io.bound
              /\ \A n \in Targets : io.refsIn[n] \subseteq io'.refsIn[n]
        /\ TrackHeld'
        /\ TrackReached'
      ]_vars

\* A request made on the child map for a name bound only in the parent
\* is on record, the name was later bound in the child, and the
\* invalidation of the child's node reached the dependent.
C28_Witness ==
    /\ last.op = "invalidate" /\ last.m = NumMaps
    /\ io.track # NoTrack /\ io.track.m = NumMaps
    /\ io.track.maps = Maps
    /\ last.name = io.track.name
    /\ io.track.d \in last.reached
    /\ InNodes(io, 1, io.track.name)
    /\ io.track.d \in io.refsIn[io.bound[1][io.track.name]]
    /\ io.bound[1][io.track.name] # io.bound[NumMaps][io.track.name]

\* ------------------------------------------------------------------ C29
\* C29: removing a dependent for a target right after adding it on the
\* same map succeeds, whether the target is bound in the map, only in an
\* ancestor, or nowhere, and leaves every binding as it was.
C29_RemoveUndoesAdd ==
    [][ (/\ last.op = "add" /\ last'.op = "remove"
         /\ last'.m = last.m /\ last'.d = last.d /\ last'.name = last.name)
            => /\ last'.res = "ok"
               /\ io'.bound = io.bound
      ]_vars

\* The target is bound in the child map, where the dependent was just
\* added and removed again, and the removal ended in the parent map with
\* a KeyError.
C29_KeyErrorInParent ==
    /\ last.op = "remove" /\ last.res = "KeyError" /\ last.m = NumMaps
    /\ InNodes(io, NumMaps, last.name)
    /\ last.d \notin io.refsIn[io.bound[NumMaps][last.name]]
    /\ io.ops = 4

C31_RigidImmune ==
    [][ /\ last'.op \in {"invalidate", "set"} =>
              /\ \A y \in Nodes :
                    node[y].rigid =>
                        /\ y \notin Range(last'.marks)
                        /\ (last'.op = "set" /\ y = last'.n)
                              \/ (/\ node'[y].valid = node[y].valid
                                  /\ node'[y].value = node[y].value)
        /\ last'.op = "invalidate" =>
              /\ node[last'.n].rigid => (node' = node /\ last'.marks = <<>>)
              /\ \A y \in Nodes \ Walked(node, {last'.n}, {}) :
                    node'[y] = node[y]
        /\ last'.op = "set" =>
              \A y \in Nodes \ Walked(node, {last'.n}, {}) :
                  y # last'.n => node'[y] = node[y]
      ]_vars

\* An invalidate reached a valid rigid node and stopped there: the rigid
\* node and a dependent of it that is reached no other way are still
\* valid.
C31_Witness ==
    /\ last.op = "invalidate" /\ last.marks # <<>>
    /\ \E y \in Nodes :
          /\ node[y].rigid /\ node[y].valid
          /\ \E x \in Range(last.marks) : y \in DirectDependents(node, x)
          /\ \E z \in DirectDependents(node, y) \ {y} :
                node[z].valid /\ ~node[z].rigid /\ z \notin Range(last.marks)

\* ------------------------------------------------------------------ C37
\* C37: after node.value = v the node is valid and caches v, so that the
\* next read returns v without a refresh, whatever the node cached and
\* whether or not it was valid before.
C37_SetLeavesValid ==
    last.op = "set" => (node[last.n].valid /\ node[last.n].value = last.ret)

\* ------------------------------------------------------------------ C38
\* C38 as stated: a set that stores a new value on a node that lies on a
\* cycle of dependents leaves that node valid with the new value and
\* every other non-rigid node that can be reached from it invalid.
C38_AllReachableInvalid ==
    [][ (/\ last'.op = "set" /\ node[last'.n].value # last'.ret
         /\ last'.n \in Reached(node, DirectDependents(node, last'.n)))
            => /\ node'[last'.n].valid /\ node'[last'.n].value = last'.ret
               /\ \A y \in Reached(node, {last'.n}) \ {last'.n} :
                     ~node[y].rigid => ~node'[y].valid
      ]_vars

\* C38 amended: a set that stores a new value on a node that lies on a
\* cycle of dependents leaves that node valid with the new value, and
\* invalid every other non-rigid node that can be reached from it along
\* dependents without passing a rigid node.
C38_WalkedInvalid ==
    [][ (/\ last'.op = "set" /\ node[last'.n].value # last'.ret
         /\ last'.n \in Reached(node, DirectDependents(node, last'.n)))
            => /\ node'[last'.n].valid /\ node'[last'.n].value = last'.ret
               /\ \A y \in Walked(node, {last'.n}, {}) \ {last'.n} :
                     ~node'[y].valid
      ]_vars

\* A set stored a new value on a node of a cycle whose other node was
\* valid: the walk came back to the node that was set, which is valid
\* with the new value, and the other node is invalid.
C38_Witness ==
    /\ last.op = "set" /\ last.marks # <<>>
    /\ node[last.n].valid /\ node[last.n].value = last.ret
    /\ \E y \in Range(last.marks) :
          /\ y # last.n /\ last.n \in DirectDependents(node, y)
          /\ ~node[y].valid

\* ------------------------------------------------------------------ C39
\* C39: registering a node under a name that is already bound in the map
\* leaves every other name of the map bound to the node it was bound to.
C39_RegisterReplacesOnlyName ==
    [][ (last'.op = "register" /\ InNodes(io, last'.m, last'.name))
            => \A key \in LinkNames \ {last'.name} :
                  io'.bound[last'.m][key] = io.bound[last'.m][key]
      ]_vars

\* ------------------------------------------------------------------ C40
\* C40: in every map, a name that is bound to a node has no staging
\* entry, and so no staged dependent, in that map.
C40_StagedOnlyWhileUnbound ==
    \A m \in Maps, key \in LinkNames :
        InNodes(io, m, key) =>
            (~io.staged[m][key].has /\ io.staged[m][key].deps = {})

\* A name is bound in the parent, with a dependent attached, while the
\* child, where it is unbound, has a dependent staged under it; and the
\* child has another name bound that dependents were added for.
C40_Witness ==
    \E key \in LinkNames :
        /\ InNodes(io, 1, key) /\ io.refsIn[io.bound[1][key]] # {}
        /\ ~InNodes(io, NumMaps, key) /\ io.staged[NumMaps][key].deps # {}
        /\ \E other \in LinkNames \ {key} :
              /\ InNodes(io, NumMaps, other)
              /\ io.refsIn[io.bound[NumMaps][other]] # {}

\* ------------------------------------------------------------------ C34
\* C34: when two structs of the type were each given one partial parse,
\* of different bytes, then after any interleaving of these calls and of
\* calls without data every field a struct holds is the field decoded
\* from the struct's own bytes.
C34_InstancesIndependent ==
    (/\ \A s \in Insts : io.began[s] # 0
     /\ \A s, t \in Insts : s # t => io.began[s] # io.began[t])
        => \A s \in Insts, f \in Fields :
              io.flds[s][f] \in {None, EagerParse(io.began[s])[f]}

\* ------------------------------------------------------------------ C35
\* C35: a serialize() right after a serialize() of the same struct
\* returns the same bytes; a serialize(stream) right after a serialize()
\* of the same struct writes those bytes at the stream's position; and
\* every unserialize, the first or a later one, sets the struct to the
\* decoding of the bytes it is given.
C35_Repeatable ==
    [][ /\ (/\ last.op = "serialize" /\ last.res = "ok"
            /\ last'.id = last.id /\ last'.res = "ok") =>
              /\ last'.op = "serialize" => last'.ret = last.ret
              /\ (last'.op = "write" /\ last'.at = 0) =>
                    \A i \in 1..CodecSize :
                        io'.raw.blob[CodecBase + i] = last.ret[i]
        /\ last'.op = "unserialize" =>
              io'.data[last'.id] = FromBytes(last'.ret)
      ]_vars

\* ----------------------------------------------------------- core/value.py
\* Two value structs of one type, as the Int of test_value.py: "i", and
\* "j", which "i" may be given as its proxy.  Each has a basic cache node
\* and a data key that is made when first asked for.
ValueStructs == {"i", "j"}
Primitives == {1, 2}
NoData == ""

\* key("data").data: the Key.data getter on the data key of struct s,
\* made by DynamicKeyMap.__getitem__ when absent.  An invalid node is
\* refreshed by Key._refresh_basic: nothing is inherited, and
\* DataKey.get_default gives the container itself.
ValueKeyData(st, s) ==
    IF st.dkey[s].made /\ st.dkey[s].valid
    THEN [st |-> st, ret |-> st.dkey[s].value]
    ELSE [st |-> [st EXCEPT !.dkey[s] = [made |-> TRUE, valid |-> TRUE,
                                         value |-> s, defaulted |-> TRUE]],
          ret |-> s]

\* Value.get_basic: the basic node's getter, which refreshes an invalid
\* node through Value.refresh_basic and get_by_proxy.
RECURSIVE ValueGetBasic(_, _)
ValueGetBasic(st, s) ==
    IF st.basic[s].valid
    THEN [st |-> st, res |-> "ok", ret |-> st.basic[s].value]
    ELSE CHOOSE out \in
        {IF d.ret = s
         THEN [st |-> d.st, res |-> "ImperialKeyError", ret |-> None]
         ELSE CHOOSE o \in
                  {IF r.res = "ok"
                   THEN [st |-> [r.st EXCEPT !.basic[s].valid = TRUE,
                                             !.basic[s].value = r.ret],
                         res |-> "ok", ret |-> r.ret]
                   ELSE [st |-> r.st, res |-> r.res, ret |-> None] :
                      r \in {ValueGetBasic(d.st, d.ret)}} : TRUE :
            d \in {ValueKeyData(st, s)}} : TRUE

\* The handler of @number for a struct whose number is its basic value.
RECURSIVE ValueNumber(_, _)
ValueNumber(st, s) ==
    IF st.basic[s].valid
    THEN [st |-> st, res |-> "ok", ret |-> st.basic[s].value]
    ELSE CHOOSE out \in
        {IF d.ret = s
         THEN [st |-> d.st, res |-> "ImperialKeyError", ret |-> None]
         ELSE ValueNumber(d.st, d.ret) :
            d \in {ValueKeyData(st, s)}} : TRUE

\* resolve("data"): self.key("data").data.resolve_basic()
ValueResolveData(st, s) ==
    CHOOSE out \in
        {[st |-> d.st, res |-> "ok", ret |-> d.ret] :
            d \in {ValueKeyData(st, s)}} : TRUE

\* get("data"): self.resolve_by_key("data").get()
ValueGetData(st, s) ==
    CHOOSE out \in
        {ValueGetBasic(r.st, r.ret) : r \in {ValueResolveData(st, s)}} : TRUE

\* set(v) with a python value: Value.set_basic assigns to the basic
\* node, whose setter invalidates what is linked to it when v is new.
ValueSetBasic(st, s, v) ==
    IF st.basic[s].value = v THEN st
    ELSE [st EXCEPT !.basic =
             [t \in ValueStructs |->
                 IF t = s THEN [valid |-> TRUE, value |-> v]
                 ELSE IF t \in st.links[s]
                 THEN [st.basic[t] EXCEPT !.valid = FALSE]
                 ELSE st.basic[t]]]

\* set(t) with a struct: Value.set_basic goes to DataKey.set, which
\* stores the struct in the key and links the two basic nodes both ways.
DataKeySet(st, s, t) ==
    [st EXCEPT !.dkey[s] = [made |-> TRUE, valid |-> TRUE, value |-> t,
                            defaulted |-> FALSE],
               !.links[s] = @ \cup {t},
               !.links[t] = @ \cup {s}]

NoValueOp == [op |-> "none", id |-> "", res |-> "ok", ret |-> None]

\* Int() twice.
ValueInit ==
    /\ node = <<>> /\ edge = <<>> /\ failing = {} /\ explicit = {}
    /\ kd = <<>> /\ ktype = "Adder" /\ hidden = FALSE
    /\ last = NoValueOp
    /\ io = [basic |-> [s \in ValueStructs |-> [valid |-> FALSE, value |-> None]],
             dkey |-> [s \in ValueStructs |->
                          [made |-> FALSE, valid |-> FALSE, value |-> NoData,
                           defaulted |-> FALSE]],
             links |-> [s \in ValueStructs |-> {}],
             holds |-> [s \in ValueStructs |-> "nothing"]]

\* struct.set(v); holds is history: what the struct has been given so
\* far, nothing, a primitive, a proxy, or both.
ValueSetPrimitive(s, v) ==
    /\ io' = [ValueSetBasic(io, s, v) EXCEPT !.holds[s] =
                 IF io.holds[s] \in {"nothing", "primitive"}
                 THEN "primitive" ELSE "both"]
    /\ last' = [NoValueOp EXCEPT !.op = "set", !.id = s, !.ret = v]

\* i.set(j)
ValueSetProxy(s, t) ==
    /\ io' = [DataKeySet(io, s, t) EXCEPT !.holds[s] =
                 IF io.holds[s] \in {"nothing", "proxy"}
                 THEN "proxy" ELSE "both"]
    /\ last' = [NoValueOp EXCEPT !.op = "proxy", !.id = s, !.ret = t]

\* struct.resolve("data")
ValueResolve(s) ==
    \E r \in {ValueResolveData(io, s)} :
        /\ io' = [r.st EXCEPT !.holds = io.holds]
        /\ last' = [op |-> "resolve", id |-> s, res |-> r.res, ret |-> r.ret]

\* struct.get()
ValueGet(s) ==
    \E r \in {ValueGetBasic(io, s)} :
        /\ io' = r.st
        /\ last' = [op |-> "get", id |-> s, res |-> r.res, ret |-> r.ret]

\* struct.get("data")
ValueGetByKey(s) ==
    \E r \in {ValueGetData(io, s)} :
        /\ io' = r.st
        /\ last' = [op |-> "getdata", id |-> s, res |-> r.res, ret |-> r.ret]

\* struct.number()
ValueGetNumber(s) ==
    \E r \in {ValueNumber(io, s)} :
        /\ io' = r.st
        /\ last' = [op |-> "number", id |-> s, res |-> r.res, ret |-> r.ret]

ValueNext ==
    \/ \E s \in ValueStructs, v \in Primitives :
          ValueSetPrimitive(s, v) /\ UNCHANGED <<nodeVars, keyVars>>
    \/ ValueSetProxy("i", "j") /\ UNCHANGED <<nodeVars, keyVars>>
    \/ \E s \in ValueStructs : ValueResolve(s) /\ UNCHANGED <<nodeVars, keyVars>>
    \/ \E s \in ValueStructs : ValueGet(s) /\ UNCHANGED <<nodeVars, keyVars>>
    \/ \E s \in ValueStructs : ValueGetByKey(s) /\ UNCHANGED <<nodeVars, keyVars>>
    \/ \E s \in ValueStructs : ValueGetNumber(s) /\ UNCHANGED <<nodeVars, keyVars>>

SpecValue == ValueInit /\ [][ValueNext]_vars

\* ------------------------------------------------------------------ C32
\* What a call returns or raises.
Outcome(r) == <<r.res, r.ret>>

\* A struct that was given a primitive value and never a proxy resolves
\* its data key to itself, and get() equals get("data").
C32_Primitive ==
    \A s \in ValueStructs :
        io.holds[s] = "primitive"
            => /\ Outcome(ValueResolveData(io, s)) = <<"ok", s>>
               /\ Outcome(ValueGetBasic(io, s)) = Outcome(ValueGetData(io, s))

\* A struct that was given nothing: resolve("data") raises
\* ImperialKeyError.
C32_Neither ==
    \A s \in ValueStructs :
        io.holds[s] = "nothing"
            => ValueResolveData(io, s).res = "ImperialKeyError"

\* A struct that was given a proxy of its type and never a primitive:
\* its number is the proxy's number.
C32_Proxy ==
    io.holds["i"] = "proxy"
        => Outcome(ValueNumber(io, "i")) = Outcome(ValueNumber(io, "j"))

\* C32: a value struct that holds a primitive value resolves its data
\* key to itself and get() equals get("data"); one that holds neither a
\* primitive nor a proxy raises ImperialKeyError when its data key is
\* resolved; one that holds a proxy of its type has the proxy's number.
C32_ValueStruct == C32_Primitive /\ C32_Neither /\ C32_Proxy

\* ------------------------------------------- BaseLinkNode.set_links_out
\* The names a call declares, and the maps it is given: the child map,
\* the root map, or the child map and then its parent.
OutNameSets == {{}} \cup {{name} : name \in RefNames}
OutMaps == {<<NumMaps>>, <<1>>, <<NumMaps, 1>>}

\* for lmap in maps: lmap.remove_references(self, removed), for one
\* removed name; the first KeyError ends the loop.
RECURSIVE RemoveFrom(_, _, _, _)
RemoveFrom(st, maps, d, name) ==
    IF maps = <<>> THEN [st |-> st, res |-> "ok"]
    ELSE CHOOSE out \in
        {IF r.res = "ok" THEN RemoveFrom(r.st, Tail(maps), d, name) ELSE r :
            r \in {RemoveReferences(st, Head(maps), d, name)}} : TRUE

\* for lmap in maps: lmap.add_references(self, added), for one added name
RECURSIVE AddTo(_, _, _, _)
AddTo(st, maps, d, name) ==
    IF maps = <<>> THEN st
    ELSE CHOOSE out \in
        {AddTo(s, Tail(maps), d, name) :
            s \in {AddReference(st, Head(maps), d, name)}} : TRUE

\* BaseLinkNode.set_links_out for names of at most one name; an
\* exception leaves references_out as it was.
SetLinksOut(st, d, names, maps) ==
    CHOOSE out \in
        {IF r.res # "ok" THEN r
         ELSE [st |-> [(IF names \ st.out[d] = {} THEN r.st
                        ELSE AddTo(r.st, maps, d,
                                   CHOOSE n \in names \ st.out[d] : TRUE))
                          EXCEPT !.out[d] = names],
               res |-> "ok"] :
            r \in {IF st.out[d] \ names = {} THEN [st |-> st, res |-> "ok"]
                   ELSE RemoveFrom(st, maps, d,
                                   CHOOSE n \in st.out[d] \ names : TRUE)}} : TRUE

\* LinkMap() and LinkMap(parent=root); nodes whose references_out is
\* empty.
OutInit ==
    /\ node = <<>> /\ edge = <<>> /\ failing = {} /\ explicit = {}
    /\ kd = <<>> /\ ktype = "Adder" /\ hidden = FALSE
    /\ last = NoLinkOp
    /\ io = [bound |-> [m \in Maps |-> [key \in LinkNames |-> Unbound]],
             staged |-> [m \in Maps |-> [key \in LinkNames |-> NoEntry]],
             refsIn |-> [n \in Targets |-> {}],
             out |-> [d \in Deps |-> {}],
             track |-> NoTrack, ops |-> 0]

\* node.set_links_out(names, maps); last.reached records the maps given.
OutSetLinksOut(d, names, maps) ==
    \E r \in {SetLinksOut(io, d, names, maps)} :
        /\ io.ops < MaxLinkOps
        /\ io' = [r.st EXCEPT !.ops = @ + 1]
        /\ last' = [NoLinkOp EXCEPT !.op = "setout", !.d = d, !.res = r.res,
                                    !.reached = Range(maps)]

OutNext ==
    \/ \E m \in Maps, n \in Targets :
          \E name \in NamesOf(n) :
              LinkRegister(m, name, n) /\ UNCHANGED <<nodeVars, keyVars>>
    \/ \E m \in Maps, name \in LinkNames :
          LinkUnregister(m, name) /\ UNCHANGED <<nodeVars, keyVars>>
    \/ \E d \in Deps, names \in OutNameSets, maps \in OutMaps :
          OutSetLinksOut(d, names, maps) /\ UNCHANGED <<nodeVars, keyVars>>

SpecOut == OutInit /\ [][OutNext]_vars

\* ------------------------------------------------------------------ C33
\* Node d is registered as a dependent of the name in map m: attached to
\* the node bound to the name, or staged under the name.
DependsOn(st, m, d, name) ==
    \/ InNodes(st, m, name) /\ d \in st.refsIn[st.bound[m][name]]
    \/ d \in st.staged[m][name].deps

\* C33: set_links_out(names, maps) ends without an exception; afterwards
\* the node's references_out equals names; in every map given the node
\* is no dependent of a name it declared before that is not in names,
\* and is a dependent of every name in names it had not declared; for a
\* name declared before and after, nothing changes in the maps given.
C33_SetLinksOut ==
    [][ last'.op = "setout" =>
          /\ last'.res = "ok"
          /\ io'.out[last'.d] \in OutNameSets
          /\ \A m \in last'.reached :
                /\ \A name \in io.out[last'.d] \ io'.out[last'.d] :
                      ~DependsOn(io', m, last'.d, name)
                /\ \A name \in io'.out[last'.d] \ io.out[last'.d] :
                      DependsOn(io', m, last'.d, name)
                /\ \A name \in io'.out[last'.d] \cap io.out[last'.d] :
                      DependsOn(io', m, last'.d, name)
                          = DependsOn(io, m, last'.d, name)
      ]_vars

\* ------------------------------------------------------------------ C36
\* The keys of the child that hold a value given by set.
ExplicitKeys(nd) == {id \in KeyIds : Owner(id) = "C" /\ nd[id].how = "set"}

\* C36: on an Adder with fewer than two keys explicitly set and nothing
\* to inherit, every read of a key that was not set ends with
\* ImperialKeyError, whatever was read, and had failed, before.
C36_UnsetReadFails ==
    [][ (/\ ktype = "Adder" /\ last'.op = "kget" /\ Owner(last'.id) = "C"
         /\ ~kd["P.data"].mat
         /\ last'.id \notin ExplicitKeys(kd)
         /\ Cardinality(ExplicitKeys(kd)) < 2)
            => last'.res = "ImperialKeyError"
      ]_vars

====
